---- MODULE Spec2Model ----
(***************************************************************************)
(* Report retrieval over a create / poll / fetch job protocol.             *)
(*                                                                         *)
(*   AmazonOrderRetrieval.retrieve_orders   (amazon_lib.py, MWS)           *)
(*   SpTabReportRetrieval.retrieve_report   (amazon_sp_report_lib.py)      *)
(*   DictTracker                            (amazon_sp_report_lib.py)      *)
(*                                                                         *)
(* One action is one whole call of a public method.  What the remote       *)
(* service, the record builder and save_orders answer during the call is   *)
(* the input of the action.  The variable last records the call that was   *)
(* made last: the tracker record it found, the remote requests it issued,  *)
(* the records it wrote, how long it waited in bulk mode, and how it ended. *)
(*                                                                         *)
(* Spec is a program that uses one of the two classes (retrieve_report in  *)
(* custom mode); SpecBulk is a program that retrieves reports and switches *)
(* between bulk mode and custom mode; SpecThreads is a program in which    *)
(* two threads poll their reports through one object in bulk mode;         *)
(* SpecSp is a program that retrieves orders through SP_Orders_Retrieval   *)
(* (amazon_sp_lib.py), one action per request of a call; SpecConstruct is a *)
(* program that constructs its SpTabReportRetrieval before it retrieves.   *)
(* SpecRetry is a program that calls retrieve_orders again and again while *)
(* the failures are transient.                                             *)
(***************************************************************************)
EXTENDS Integers, Sequences, FiniteSets, TLC

VARIABLES
    client,     \* which retrieval object the client program constructed
    logger,     \* AmazonReportLogger store: (day, marketplace) -> AmazonReportLogEntry
    saved,      \* keys whose orders save_orders has committed
    mwsJobs,    \* MWS side: number of report requests accepted per key
    d,          \* DictTracker.d: (type, marketplace, start, end) -> dict
    spJobs,     \* SP-API side: number of reports created per key
    bulk,       \* SpTabReportRetrieval.__bulk
    lim,        \* the counters and last-request times that bulk_mode() sets
    issued,     \* when requests of the observed type were issued in bulk mode
    threads,    \* per key, where the caller retrieving that key stands in __wait
    type_name,  \* SpTabReportRetrieval.__type_name
    sp,         \* SP_Orders_Retrieval: its request counter and the call in progress
    prev,       \* per key, how the previous call for that key ended
    last        \* the call made last

vars == <<client, logger, saved, mwsJobs, d, spJobs, bulk, lim, issued, threads, sp, type_name, prev, last>>

---------------------------------------------------------------------------
\* Bounds.

\* Job keys: (day, marketplace) for retrieve_orders,
\* (report_type_name, marketplace, start_ds, end_ds) for retrieve_report.
\* They are valid ones: a known marketplace and a tab report type.
Keys == {"k1", "k2"}

\* Remote jobs the service accepts per key before it only answers with errors.
MaxJobs == 2

\* GET REPORT polls a program makes in bulk mode before it calls bulk_mode()
\* or custom_mode() again.
MaxBulkPolls == 3

---------------------------------------------------------------------------
\* Values.

\* Python None in a field that otherwise holds a string.
None == "None"

\* Python None in a field that otherwise holds an id.
NoId == <<>>

\* Lines 16-40: the names of the tab report types (two of them).
TAB_REPORT_TYPES == {"Inventory Report", "Flat File Feedback Report"}

\* The report_type_name the object of a program that retrieves reports was
\* constructed with.
ConstructedTypeName == "Inventory Report"

\* No SP_Orders_Retrieval object was constructed.
NoSp == [pc |-> "none"]

\* Exceptions of retrieve_orders, as str(type(e)): a request through the mws
\* package raises MWSError, __build_df a KeyError (a missing rate or field),
\* save_orders an error of the client's saving system.
MwsErrs == {"MWSError"}
BuildErrs == {"KeyError"}
SaveErrs == {"IOError"}
OrderErrs == MwsErrs \cup BuildErrs \cup SaveErrs

\* ReportProcessingStatus values of MWS (_IN_PROGRESS_ is handled as
\* _SUBMITTED_ is, _DONE_NO_DATA_ as _CANCELLED_ is).
MwsStatuses == {"_SUBMITTED_", "_CANCELLED_", "_DONE_"}

\* The id MWS gives the n-th request accepted for key k.
MwsRequestId(k, n) == <<k, n>>

\* GeneratedReportId of a finished request.
GeneratedReportId(request_id) == request_id \o <<"report">>

\* A remote request: the operation and its argument.
Req(op, arg) == [op |-> op, arg |-> arg]

---------------------------------------------------------------------------
\* AmazonReportLogEntry and the logger.

AmazonReportLogEntry(submitted_date, request_id, report_id, k, processing_status, saving_status, last_err_type) ==
    [submitted_date |-> submitted_date, request_id |-> request_id, report_id |-> report_id,
     key |-> k, processing_status |-> processing_status, saving_status |-> saving_status,
     last_err_type |-> last_err_type]

\* AmazonReportLogger.get_info: the entry as a set, empty when get_info gives None.
get_info(k) == IF k \in DOMAIN logger THEN {logger[k]} ELSE {}

\* log_info replacing the entry of every key the store holds.
log_info_every_key(store, entry) ==
    [x \in DOMAIN store \cup {entry.key} |-> entry]

\* AmazonReportLogger.log_info: whole-record replacement keyed by (day, marketplace).
log_info(store, entry) ==
    [x \in DOMAIN store \cup {entry.key} |-> IF x = entry.key THEN entry ELSE store[x]]

\* The store after a sequence of log_info calls.
RECURSIVE LogAll(_, _)
LogAll(store, entries) ==
    IF entries = <<>> THEN store
    ELSE LogAll(log_info(store, Head(entries)), Tail(entries))

---------------------------------------------------------------------------
\* AmazonOrderRetrieval.retrieve_orders.

\* How a call went: the remote requests issued in order, the records written in
\* order, the status returned (None when the call raised), the exception that
\* reached the caller (None when the call returned), the step at which an
\* exception occurred and its type (None when none occurred), whether
\* save_orders committed and whether the remote service accepted a new job.
Outcome(reqs, writes, ret, raised, failed, err, committed, accepted) ==
    [reqs |-> reqs, writes |-> writes, ret |-> ret, raised |-> raised, failed |-> failed,
     err |-> err, committed |-> committed, accepted |-> accepted]

Returned(reqs, writes, ret, committed, accepted) ==
    Outcome(reqs, writes, ret, None, None, None, committed, accepted)

Raised(reqs, writes, e, step, accepted) ==
    Outcome(reqs, writes, None, e, step, e, FALSE, accepted)

\* An exception that the call caught and answered with a status.
Caught(reqs, writes, ret, e, step) ==
    Outcome(reqs, writes, ret, None, step, e, FALSE, FALSE)

\* The second phase of a call appended to the first.
Then(first, second) ==
    Outcome(first.reqs \o second.reqs, first.writes \o second.writes, second.ret,
            second.raised, second.failed, second.err, second.committed,
            first.accepted \/ second.accepted)

\* NeedsCreate without the test for a failed request.
NeedsCreateOnlyUntracked(entries) == entries = {}

\* Line 343: no entry, or the last request failed.
NeedsCreate(entries) ==
    entries = {} \/ \E e \in entries : e.processing_status = "REQUEST_FAILED"

\* FailedRequestEntry without the exception type.
FailedRequestEntryNoError(k, err) ==
    AmazonReportLogEntry("curr_pst_time", NoId, NoId, k, "REQUEST_FAILED", "NOT_SAVED", None)

\* Lines 353-362: the entry logged when the request could not be made.
FailedRequestEntry(k, err) ==
    AmazonReportLogEntry("curr_pst_time", NoId, NoId, k, "REQUEST_FAILED", "NOT_SAVED", err)

\* CreatedRequestEntry that never takes the GeneratedReportId.
CreatedRequestEntryNoReportId(k, request_id, status) ==
    AmazonReportLogEntry("SubmittedDate", request_id, NoId, k, status, "NOT_SAVED", None)

\* Lines 366-375: the entry logged for a request that was made.
CreatedRequestEntry(k, request_id, status) ==
    AmazonReportLogEntry("SubmittedDate", request_id,
                         IF status = "_DONE_" THEN GeneratedReportId(request_id) ELSE NoId,
                         k, status, "NOT_SAVED", None)

\* Lines 346-376.  rr is what request_report answers ("ok" or the exception it
\* raises), rl what get_report_request_list answers for the new request (its
\* ReportProcessingStatus or the exception it raises).  The steps that can
\* raise are named RequestReport and ReadBack.
CreateRequest(k, n, rr, rl) ==
    LET request_id == MwsRequestId(k, n + 1)
        r1 == Req("RequestReport", k)
        r2 == Req("GetReportRequestList", request_id)
    IN  IF rr \in OrderErrs
        THEN Raised(<<r1>>, <<FailedRequestEntry(k, rr)>>, rr, "RequestReport", FALSE)
        ELSE IF rl \in OrderErrs
        THEN Raised(<<r1, r2>>, <<FailedRequestEntry(k, rl)>>, rl, "ReadBack", TRUE)
        ELSE Returned(<<r1, r2>>, <<CreatedRequestEntry(k, request_id, rl)>>,
                      "CREATED_REQUEST", FALSE, TRUE)

\* AlreadySaved comparing with the name of the retrieval status.
AlreadySavedWrongName(entry) == entry.saving_status = "SAVED_ORDERS"

\* Line 378.
AlreadySaved(entry) == entry.saving_status = "SAVED"

\* deepcopy that returns the object it was called on.
deepcopy_same_object(entry) == [same_object |-> TRUE, fields |-> entry]

\* Lines 155-174: AmazonReportLogEntry.deepcopy, a new object built from the
\* fields of the entry.
deepcopy(entry) == [same_object |-> FALSE, fields |-> entry]

\* EditableCopy that keeps the error type of the entry found.
EditableCopyKeepsError(entry) == entry

\* Lines 381-382: the copy the rest of the call edits.
EditableCopy(entry) == [deepcopy(entry).fields EXCEPT !.last_err_type = None]

\* Line 384.
NeedsPoll(entry) == entry.processing_status # "_DONE_"

\* PollFailedEntry marking the request as failed, as a failed creation does.
PollFailedEntryRequestFailed(entry, err) ==
    [entry EXCEPT !.last_err_type = err, !.processing_status = "REQUEST_FAILED"]

\* Lines 393-394: the poll raised.
PollFailedEntry(entry, err) == [entry EXCEPT !.last_err_type = err]

\* PolledEntry that never takes the GeneratedReportId.
PolledEntryNoReportId(entry, status) == [entry EXCEPT !.processing_status = status]

\* Lines 389 and 392: the polled status, and the report id once done.
PolledEntry(entry, status) ==
    IF status = "_DONE_"
    THEN [entry EXCEPT !.processing_status = status,
                       !.report_id = GeneratedReportId(entry.request_id)]
    ELSE [entry EXCEPT !.processing_status = status]

\* PollRequest that returns after the poll even when the report is done.
PollRequestStops(entry, p) ==
    LET r == Req("GetReportRequestList", entry.request_id)
    IN  IF p \in OrderErrs
        THEN Raised(<<r>>, <<PollFailedEntry(entry, p)>>, p, "Poll", FALSE)
        ELSE Returned(<<r>>, <<PolledEntry(entry, p)>>, "REQUEST_PROCESSING", FALSE, FALSE)

\* Lines 386-397.  p is what get_report_request_list answers.  The finally
\* clause logs the entry on every way out; "go_on" stands for falling through
\* to line 399.  The step that can raise is named Poll.
PollRequest(entry, p) ==
    LET r == Req("GetReportRequestList", entry.request_id)
    IN  IF p \in OrderErrs
        THEN Raised(<<r>>, <<PollFailedEntry(entry, p)>>, p, "Poll", FALSE)
        ELSE IF p # "_DONE_"
        THEN Returned(<<r>>, <<PolledEntry(entry, p)>>, "REQUEST_PROCESSING", FALSE, FALSE)
        ELSE Returned(<<r>>, <<PolledEntry(entry, p)>>, "go_on", FALSE, FALSE)

\* What can happen from get_report on: the request, __build_df or save_orders
\* raises; the envelope holds no Message; __build_df gives None (no shipped
\* item); or the orders are saved.
FetchAnswers ==
    [step : {"GetReport"}, err : MwsErrs] \cup [step : {"build_df"}, err : BuildErrs]
    \cup [step : {"save_orders"}, err : SaveErrs]
    \cup [step : {"no_message", "no_rows", "saved"}, err : {None}]

\* SaveFailedEntry going back to NOT_SAVED.
SaveFailedEntryNotSaved(entry, err) ==
    [entry EXCEPT !.saving_status = "NOT_SAVED", !.last_err_type = err]

\* SaveFailedEntry marking the request as failed, as a failed creation does.
SaveFailedEntryRequestFailed(entry, err) ==
    [entry EXCEPT !.saving_status = "SAVE_FAILED", !.last_err_type = err,
                  !.processing_status = "REQUEST_FAILED"]

\* SaveFailedEntry recording the failed attempt as a save.
SaveFailedEntrySaved(entry, err) ==
    [entry EXCEPT !.saving_status = "SAVED", !.last_err_type = err]

\* Lines 413-414.
SaveFailedEntry(entry, err) ==
    [entry EXCEPT !.saving_status = "SAVE_FAILED", !.last_err_type = err]

\* EmptySaveEntry recording the empty save as a save.
EmptySaveEntrySaved(entry) == [entry EXCEPT !.saving_status = "SAVED"]

\* Line 410.
EmptySaveEntry(entry) == [entry EXCEPT !.saving_status = "EMPTY_SAVE"]

\* SavedEntry that leaves the entry as it was.
SavedEntryNotMarked(entry) == entry

\* Line 408.
SavedEntry(entry) == [entry EXCEPT !.saving_status = "SAVED"]

\* Line 411: the status returned when nothing raised.
FetchReturn(f) == "SAVED_ORDERS"

\* FetchReport that asks for the report a second time when get_report raised.
FetchReportRetry(entry, f) ==
    LET r == Req("GetReport", entry.report_id)
    IN  IF f.err # None
        THEN Raised(IF f.step = "GetReport" THEN <<r, r>> ELSE <<r>>,
                    <<SaveFailedEntry(entry, f.err)>>, f.err, f.step, FALSE)
        ELSE IF f.step = "saved"
        THEN Returned(<<r>>, <<SavedEntry(entry)>>, FetchReturn(f), TRUE, FALSE)
        ELSE Returned(<<r>>, <<EmptySaveEntry(entry)>>, FetchReturn(f), FALSE, FALSE)

\* Lines 399-417.  The finally clause logs the entry on every way out.
FetchReport(entry, f) ==
    LET r == Req("GetReport", entry.report_id)
    IN  IF f.err # None
        THEN Raised(<<r>>, <<SaveFailedEntry(entry, f.err)>>, f.err, f.step, FALSE)
        ELSE IF f.step = "saved"
        THEN Returned(<<r>>, <<SavedEntry(entry)>>, FetchReturn(f), TRUE, FALSE)
        ELSE Returned(<<r>>, <<EmptySaveEntry(entry)>>, FetchReturn(f), FALSE, FALSE)

\* Lines 381-417 for an entry that needs no new request and is not saved.
PollAndFetch(log_entry, p, f) ==
    LET entry == EditableCopy(log_entry)
    IN  IF NeedsPoll(entry)
        THEN LET polled == PollRequest(entry, p)
             IN  IF polled.ret = "go_on"
                 THEN Then(polled, FetchReport(polled.writes[1], f))
                 ELSE polled
        ELSE FetchReport(entry, f)

\* Every way a call of retrieve_orders(day, marketplace) can go from the
\* logger's entry, lines 341-417.
RetrieveOrdersOutcomes(k) ==
    LET entries == get_info(k)
    IN  IF NeedsCreate(entries)
        THEN { CreateRequest(k, mwsJobs[k], rr, rl) :
                 rr \in MwsErrs \cup (IF mwsJobs[k] < MaxJobs THEN {"ok"} ELSE {}),
                 rl \in MwsErrs \cup MwsStatuses }
        ELSE LET log_entry == CHOOSE e \in entries : TRUE
             IN  IF AlreadySaved(log_entry)
                 THEN { Returned(<<>>, <<>>, "ORDERS_ALREADY_SAVED", FALSE, FALSE) }
                 ELSE { PollAndFetch(log_entry, p, f) :
                          p \in MwsErrs \cup MwsStatuses, f \in FetchAnswers }

\* The step at which the previous call for a key raised, whether some call for
\* it has returned SAVED_ORDERS or ORDERS_ALREADY_SAVED, and whether some call
\* for it has ended in an empty save.
NoPrev == [failed |-> None, returned_saved |-> FALSE, emptied |-> FALSE]

PrevAfter(p, r, savedRets, emptied) ==
    [failed |-> r.failed,
     returned_saved |-> p.returned_saved \/ r.ret \in savedRets,
     emptied |-> p.emptied \/ emptied]

\* Line 410 was reached in the call: the entry it logged last is an empty save.
EndedEmpty(r) ==
    r.writes # <<>> /\ r.writes[Len(r.writes)].saving_status = "EMPTY_SAVE"

\* The object that get_info returned, as it is when the call ends.  Up to line
\* 379 the call only reads it.  From line 381 on the call edits the object that
\* deepcopy returned, and the entry it logs last (in a finally clause) holds
\* all its edits.
SnapshotAfter(entries, r) ==
    IF NeedsCreate(entries) THEN entries
    ELSE LET log_entry == CHOOSE e \in entries : TRUE
         IN  IF ~AlreadySaved(log_entry) /\ deepcopy(log_entry).same_object
             THEN {r.writes[Len(r.writes)]}
             ELSE entries

\* The record of a call: snapshot is the object the tracker returned to the
\* call, as the call left it.
Call(api, k, pre, snapshot, p, r, out, waits) ==
    [api |-> api, key |-> k, pre |-> pre, snapshot |-> snapshot, prev |-> p,
     reqs |-> r.reqs, writes |-> r.writes,
     ret |-> r.ret, raised |-> r.raised, failed |-> r.failed, err |-> r.err, out |-> out,
     committed |-> r.committed, accepted |-> r.accepted, waits |-> waits]

RetrieveOrders(k) ==
    /\ client = "orders"
    /\ \E r \in RetrieveOrdersOutcomes(k) :
        /\ logger' = LogAll(logger, r.writes)
        /\ saved' = IF r.committed THEN saved \cup {k} ELSE saved
        /\ mwsJobs' = IF r.accepted THEN [mwsJobs EXCEPT ![k] = @ + 1] ELSE mwsJobs
        /\ prev' = [prev EXCEPT ![k] = PrevAfter(@, r, {"SAVED_ORDERS", "ORDERS_ALREADY_SAVED"},
                                                 EndedEmpty(r))]
        /\ last' = Call("orders", k, get_info(k), SnapshotAfter(get_info(k), r), prev[k],
                        r, None, <<>>)
    /\ UNCHANGED <<client, d, spJobs, bulk, lim, issued, threads, sp, type_name>>

---------------------------------------------------------------------------
\* DictTracker.

\* Exceptions of retrieve_report: a request through the sp_api package raises
\* SellingApiException; what follows the download of a document (read_csv,
\* output_report_doc) raises an exception that is not one.
SpApiErrs == {"SellingApiException"}
OutputErrs == {"OutputError"}

\* processingStatus values of the SP-API (IN_PROGRESS is handled as IN_QUEUE
\* is, CANCELLED as FATAL is).
SpStatuses == {"IN_QUEUE", "FATAL", "DONE"}

\* Errors the service can return with a created report: none, or some.
CreateResErrors == {None, "errors"}

\* The id the SP-API gives the n-th report created for key k.
SpReportId(k, n) == <<k, n>>

\* reportDocumentId of a finished report.
ReportDocumentId(report_id) == report_id \o <<"document">>

\* init_report_tracking storing a status of the service instead of None.
init_report_tracking_in_queue(report_id, errors) ==
    [ReportId |-> report_id, Errors |-> errors, Status |-> "IN_QUEUE", DocumentId |-> NoId]

\* Lines 763-764: the dict stored by init_report_tracking.
init_report_tracking(report_id, errors) ==
    [ReportId |-> report_id, Errors |-> errors, Status |-> None, DocumentId |-> NoId]

\* Line 771.
is_report_created(k) == k \in DOMAIN d

\* update_report_status that leaves the status as it was.
update_report_status_stale(rec, status, errors) == [rec EXCEPT !.Errors = errors]

\* Lines 792-795.
update_report_status(rec, status, errors) ==
    [rec EXCEPT !.Status = status, !.Errors = errors]

\* Lines 802-803.
update_report_document_id(rec, doc_id) == [rec EXCEPT !.DocumentId = doc_id]

\* self.d[key] = ... : the dict after the writes of a call, in order.
RECURSIVE TrackAll(_, _, _)
TrackAll(store, k, recs) ==
    IF recs = <<>> THEN store
    ELSE TrackAll([x \in DOMAIN store \cup {k} |-> IF x = k THEN Head(recs) ELSE store[x]],
                  k, Tail(recs))

---------------------------------------------------------------------------
\* SpTabReportRetrieval.retrieve_report: what a call requests, writes and
\* returns.  The pacing of its requests in bulk mode follows further down.

\* WAITING_STATUS with FATAL taken as a status to wait on.
WAITING_STATUS_AND_FATAL == {None, "IN_QUEUE", "IN_PROGRESS", "FATAL"}

\* Line 399.
WAITING_STATUS == {None, "IN_QUEUE", "IN_PROGRESS"}

\* Line 631: the text tracked for a failed CREATE REPORT.
CreateDiagnostic(err) == "[SellingApiException] message"

\* Line 685: the text tracked for a failed GET REPORT or GET REPORT DOCUMENT.
UpdateDiagnostic(err) == "SellingApiException message"

\* The result of a call is an Outcome whose ret is the pair (status, out).
\* Lines 616-632.  c is what create_report answers: the errors returned with
\* the new report, or the exception raised.
create_report(k, n, c) ==
    LET report_id == SpReportId(k, n + 1)
        r == Req("createReport", k)
    IN  IF c \in SpApiErrs
        THEN Caught(<<r>>, <<init_report_tracking(NoId, CreateDiagnostic(c))>>,
                    <<"EXCEPTION_OCCURRED", None>>, c, "createReport")
        ELSE Returned(<<r>>, <<init_report_tracking(report_id, c)>>,
                      <<"REPORT_CREATED", None>>, FALSE, TRUE)

\* What can happen from get_report_document on: the request raises,
\* output_report_doc raises, or the output is returned.
DocumentAnswers ==
    [step : {"getReportDocument"}, err : SpApiErrs]
    \cup [step : {"output_report_doc"}, err : OutputErrs]
    \cup [step : {"returned"}, err : {None}]

\* get_document_df that asks for a document without its id.
get_document_df_no_id(doc_id, f) ==
    LET r == Req("getReportDocument", NoId)
    IN  IF f.err # None
        THEN Raised(<<r>>, <<>>, f.err, f.step, FALSE)
        ELSE Returned(<<r>>, <<>>, <<"DOCUMENTED_RETURNED", "output">>, FALSE, FALSE)

\* Lines 635-646.  No tracker call is made here.
get_document_df(doc_id, f) ==
    LET r == Req("getReportDocument", doc_id)
    IN  IF f.err # None
        THEN Raised(<<r>>, <<>>, f.err, f.step, FALSE)
        ELSE Returned(<<r>>, <<>>, <<"DOCUMENTED_RETURNED", "output">>, FALSE, FALSE)

\* HandleSellingApiException without the except clause.
HandleNothing(rec, res) == res

\* Lines 679-686: a SellingApiException raised inside __update_report_status
\* is tracked with the status the tracker holds at that moment, and the call
\* returns.  Any other exception goes on to the caller.
HandleSellingApiException(rec, res) ==
    LET tracked == IF res.writes = <<>> THEN rec ELSE res.writes[Len(res.writes)]
        status == tracked.Status
    IN  IF res.raised \in SpApiErrs
        THEN Caught(res.reqs,
                    res.writes \o <<update_report_status(tracked, status,
                                                         UpdateDiagnostic(res.raised))>>,
                    <<"EXCEPTION_OCCURRED", status>>, res.raised, res.failed)
        ELSE res

\* update_report_status_body without the test of the report id.
update_report_status_body_no_test(rec, p, f) ==
    LET r == Req("getReport", rec.ReportId)
        updated == update_report_status(rec, p, None)
        documented == update_report_document_id(updated, ReportDocumentId(rec.ReportId))
    IN  IF p \in SpApiErrs
        THEN Raised(<<r>>, <<>>, p, "getReport", FALSE)
        ELSE IF p = "DONE"
        THEN Then(Returned(<<r>>, <<updated, documented>>, None, FALSE, FALSE),
                  get_document_df(documented.DocumentId, f))
        ELSE Returned(<<r>>, <<updated>>, <<"UPDATED_STATUS", p>>, FALSE, FALSE)

\* Lines 650-678, the body of the try.  p is what get_report answers: the
\* processingStatus or the exception raised.
update_report_status_body(rec, p, f) ==
    LET r == Req("getReport", rec.ReportId)
        updated == update_report_status(rec, p, None)
        documented == update_report_document_id(updated, ReportDocumentId(rec.ReportId))
    IN  IF rec.ReportId = NoId
        THEN Raised(<<>>, <<>>, "RuntimeError", "report_id", FALSE)
        ELSE IF p \in SpApiErrs
        THEN Raised(<<r>>, <<>>, p, "getReport", FALSE)
        ELSE IF p = "DONE"
        THEN Then(Returned(<<r>>, <<updated, documented>>, None, FALSE, FALSE),
                  get_document_df(documented.DocumentId, f))
        ELSE Returned(<<r>>, <<updated>>, <<"UPDATED_STATUS", p>>, FALSE, FALSE)

\* Lines 649-686.
update_report_status_call(rec, p, f) ==
    HandleSellingApiException(rec, update_report_status_body(rec, p, f))

---------------------------------------------------------------------------
\* The rate limiter of bulk mode: bulk_mode(), custom_mode() and __wait.
\*
\* Time is counted in ticks of half a second (line 713 compares with 0.5 s).  The limiter only ever uses the
\* difference between time.time() and a last-request time, so the model keeps
\* each last-request time as its age: the ticks passed since that moment,
\* capped where more makes no difference, or Never for the -1 of bulk_mode().

TicksPerSecond == 2

\* Lines 402-405.
RequestType == {"CREATE_REPORT", "GET_REPORT", "GET_REPORT_DOC"}

\* The request type of a remote operation (the argument of __wait before it).
TypeOfOp(op) ==
    IF op = "createReport" THEN "CREATE_REPORT"
    ELSE IF op = "getReport" THEN "GET_REPORT" ELSE "GET_REPORT_DOC"

\* Lines 455-457 (and 707, 722, 737): the requests of a burst.
BurstCapacity == 15

\* Lines 698, 713 and 728: 60 s, 0.5 s and 60 s between two requests of a type.
MinSpacing(c) == IF c = "GET_REPORT" THEN 1 ELSE 60 * TicksPerSecond

\* Lines 706, 721 and 736: time.sleep(60) when the burst is used up.
Cooldown == 60 * TicksPerSecond

\* Lines 458-460: no request of the type has been made.
Never == -1

\* The window of the rate ceiling: a burst's worth of minimum spacing.
Window(c) == BurstCapacity * MinSpacing(c)

\* An age after dt more ticks; ages of cap and more are not told apart.
Older(age, dt, cap) ==
    IF age = Never THEN Never
    ELSE IF age + dt > cap THEN cap ELSE age + dt

\* Lines 455-460: what bulk_mode() sets for each request type.
bulk_mode_state == [c \in RequestType |-> [left |-> BurstCapacity, t_last |-> Never]]

\* What is remembered of the requests issued since bulk_mode(), for one
\* request type that is observed: the age of the last one, and the age of the
\* first one of the current window together with the number of requests
\* issued since (that one included).
NothingIssued(c) == [type |-> c, since |-> Never, anchor |-> Never, n |-> 0]

\* The state of the limiter and of the requests issued, dt ticks later.
Elapsed(st, dt) ==
    [lim |-> [c \in DOMAIN st.lim |->
                 [st.lim[c] EXCEPT !.t_last = Older(@, dt, MinSpacing(c))]],
     issued |-> [st.issued EXCEPT !.since = Older(@, dt, Cooldown),
                                  !.anchor = Older(@, dt, Window(st.issued.type))],
     waits |-> st.waits]

\* SpacingSleep that sleeps twice what is missing to the spacing.
SpacingSleepTwice(c, t_last) ==
    IF t_last # Never /\ t_last < MinSpacing(c) THEN 2 * (MinSpacing(c) - t_last) ELSE 0

\* Lines 695-699 (710-714, 725-729): the sleep that keeps two requests of a
\* type apart, from the age of the last-request time of the type.
SpacingSleep(c, t_last) ==
    IF t_last # Never /\ t_last < MinSpacing(c) THEN MinSpacing(c) - t_last ELSE 0

\* Counted without the refill of line 707 (722, 737).
Counted_no_refill(L) ==
    [sleep |-> IF L.left - 1 = 0 THEN Cooldown ELSE 0,
     rec |-> [left |-> L.left - 1, t_last |-> 0]]

\* Lines 701-707 (716-722, 731-737): the last-request time becomes curr, the
\* time at which __wait was entered, and the counter goes down; at 0 the call
\* sleeps for the cooldown and the counter starts again.
Counted(L) ==
    IF L.left - 1 = 0
    THEN [sleep |-> Cooldown, rec |-> [left |-> BurstCapacity, t_last |-> 0]]
    ELSE [sleep |-> 0, rec |-> [left |-> L.left - 1, t_last |-> 0]]

\* A request of type c is issued now.  When c is the observed type it is the
\* last one, and it falls into the current window of BurstCapacity *
\* MinSpacing(c) ticks or starts a new one.  The requests of a window are
\* counted up to one more than BurstCapacity.
Issue(I, c) ==
    IF I.type # c THEN I
    ELSE IF I.anchor = Never \/ I.anchor >= Window(c)
    THEN [I EXCEPT !.since = 0, !.anchor = 0, !.n = 1]
    ELSE [I EXCEPT !.since = 0, !.n = IF @ > BurstCapacity THEN @ ELSE @ + 1]

\* __wait that looks at the mode only as long as bulk_mode() was never called.
wait_ignoring_mode(st, c, issues, inBulk) ==
    IF ~inBulk /\ DOMAIN st.lim = {}
    THEN [st EXCEPT !.waits = Append(@, [type |-> c, slept |-> 0, first |-> FALSE, left |-> 0,
                                         gap |-> Never, issued |-> issues, bulk |-> FALSE])]
    ELSE LET counted == Counted(st.lim[c])
         IN  [lim |-> [st.lim EXCEPT ![c] = counted.rec],
              issued |-> st.issued,
              waits |-> Append(st.waits, [type |-> c, slept |-> counted.sleep, first |-> FALSE,
                                          left |-> st.lim[c].left, gap |-> Never,
                                          issued |-> issues, bulk |-> inBulk])]

\* __wait with one last-request time for the three request types: the time
\* recorded for the type of the request is recorded for the two others too.
wait_shared_time(st, c, issues, inBulk) ==
    IF ~inBulk
    THEN [st EXCEPT !.waits = Append(@, [type |-> c, slept |-> 0, first |-> FALSE, left |-> 0,
                                         gap |-> Never, issued |-> issues, bulk |-> FALSE])]
    ELSE LET spacing == SpacingSleep(c, st.lim[c].t_last)
             counted == Counted(st.lim[c])
             slept == spacing + counted.sleep
             shared == [x \in DOMAIN st.lim |->
                           IF x = c THEN counted.rec ELSE [st.lim[x] EXCEPT !.t_last = 0]]
             after == Elapsed([st EXCEPT !.lim = shared], slept)
             w == [type |-> c, slept |-> slept, first |-> st.lim[c].t_last = Never,
                   left |-> st.lim[c].left,
                   gap |-> IF c = st.issued.type THEN after.issued.since ELSE Never,
                   issued |-> issues, bulk |-> TRUE]
         IN  [lim |-> after.lim,
              issued |-> IF issues THEN Issue(after.issued, c) ELSE after.issued,
              waits |-> Append(after.waits, w)]

\* Lines 689-737: __wait(req_type), and the request that follows it when
\* issues is TRUE.  In custom mode __wait returns at once (lines 690-691).
\* The wait is recorded with the ticks slept, whether it was the first of its
\* type since bulk_mode(), the counter of the type it found, and, for the
\* observed type, the ticks between the previous request of the type and this
\* one.
wait(st, c, issues, inBulk) ==
    IF ~inBulk
    THEN [st EXCEPT !.waits = Append(@, [type |-> c, slept |-> 0, first |-> FALSE, left |-> 0,
                                         gap |-> Never, issued |-> issues, bulk |-> FALSE])]
    ELSE LET spacing == SpacingSleep(c, st.lim[c].t_last)
             counted == Counted(st.lim[c])
             slept == spacing + counted.sleep
             after == Elapsed([st EXCEPT !.lim[c] = counted.rec], slept)
             w == [type |-> c, slept |-> slept, first |-> st.lim[c].t_last = Never,
                   left |-> st.lim[c].left,
                   gap |-> IF c = st.issued.type THEN after.issued.since ELSE Never,
                   issued |-> issues, bulk |-> TRUE]
         IN  [lim |-> after.lim,
              issued |-> IF issues THEN Issue(after.issued, c) ELSE after.issued,
              waits |-> Append(after.waits, w)]

\* The calls of __wait in a call of retrieve_report, in order.
RECURSIVE Pace(_, _, _)
Pace(st, steps, inBulk) ==
    IF steps = <<>> THEN st
    ELSE Pace(wait(st, Head(steps).type, Head(steps).issues, inBulk), Tail(steps), inBulk)

\* Lines 618, 638 and 652: __wait comes before each request; before GET
\* REPORT it also comes before the test of the report id (line 657), so a call
\* that raises RuntimeError has waited without issuing a request.
WaitSteps(r) ==
    IF r.raised = "RuntimeError" THEN <<[type |-> "GET_REPORT", issues |-> FALSE]>>
    ELSE [i \in 1..Len(r.reqs) |-> [type |-> TypeOfOp(r.reqs[i].op), issues |-> TRUE]]

\* The ticks that can pass between two calls: none, or as many as the longest
\* window has.
ElapseChoices == {0, Window("CREATE_REPORT")}

\* Every way a call of retrieve_report can go from the tracker's dict, lines
\* 546-566.
RetrieveReportOutcomes(k) ==
    IF ~is_report_created(k)
    THEN { create_report(k, spJobs[k], c) :
             c \in SpApiErrs \cup (IF spJobs[k] < MaxJobs THEN CreateResErrors ELSE {}) }
    ELSE IF d[k].Status \in WAITING_STATUS
    THEN { update_report_status_call(d[k], p, f) :
             p \in SpApiErrs \cup SpStatuses, f \in DocumentAnswers }
    ELSE IF d[k].DocumentId # NoId
    THEN { get_document_df(d[k].DocumentId, f) : f \in DocumentAnswers }
    ELSE { Returned(<<>>, <<>>, <<"DONE_NOTHING", None>>, FALSE, FALSE) }

\* The dict of a key as a set, empty when the key is not tracked.
Tracked(k) == IF k \in DOMAIN d THEN {d[k]} ELSE {}

\* The bound on the polls made in bulk mode: the counter of GET REPORT, which
\* starts at BurstCapacity, tells how many were made.
BulkPollAllowed(r) ==
    (bulk /\ \E i \in 1..Len(WaitSteps(r)) : WaitSteps(r)[i].type = "GET_REPORT")
        => lim["GET_REPORT"].left > BurstCapacity - MaxBulkPolls

\* A call of retrieve_report, made some ticks after the call before it.  In
\* custom mode the last-request times are not read, and bulk_mode() sets them
\* anew: their ages are left as they are.
RetrieveReport(k) ==
    /\ client = "reports"
    /\ \E r \in RetrieveReportOutcomes(k), dt \in ElapseChoices :
        /\ BulkPollAllowed(r)
        /\ LET now == [lim |-> lim, issued |-> issued, waits |-> <<>>]
               st == Pace(IF bulk THEN Elapsed(now, dt) ELSE now, WaitSteps(r), bulk)
           IN  /\ d' = TrackAll(d, k, r.writes)
               /\ spJobs' = IF r.accepted THEN [spJobs EXCEPT ![k] = @ + 1] ELSE spJobs
               /\ lim' = st.lim
               /\ issued' = st.issued
               /\ prev' = [prev EXCEPT ![k] = PrevAfter(@, r, {}, FALSE)]
               /\ last' = Call("reports", k, Tracked(k), Tracked(k), prev[k],
                               [r EXCEPT !.ret = IF r.raised = None THEN r.ret[1] ELSE None],
                               IF r.raised = None THEN r.ret[2] ELSE None, st.waits)
    /\ UNCHANGED <<client, logger, saved, mwsJobs, bulk, threads, sp, type_name>>

\* The record of a call of bulk_mode() or custom_mode().
ModeCall(api) ==
    [api |-> api, key |-> None, pre |-> {}, snapshot |-> {}, prev |-> NoPrev, reqs |-> <<>>, writes |-> <<>>,
     ret |-> None, raised |-> None, failed |-> None, err |-> None, out |-> None,
     committed |-> FALSE, accepted |-> FALSE, waits |-> <<>>]

\* Lines 454-460.  From here on the requests of one type are observed.
BulkMode ==
    /\ client = "reports"
    /\ bulk' = TRUE
    /\ lim' = bulk_mode_state
    /\ \E c \in RequestType : issued' = NothingIssued(c)
    /\ last' = ModeCall("bulk_mode")
    /\ UNCHANGED <<client, logger, saved, mwsJobs, d, spJobs, threads, prev, sp, type_name>>

\* Line 467.  The observation of the requests issued in bulk mode ends.
CustomMode ==
    /\ client = "reports"
    /\ bulk' = FALSE
    /\ issued' = NothingIssued(None)
    /\ last' = ModeCall("custom_mode")
    /\ UNCHANGED <<client, logger, saved, mwsJobs, d, spJobs, lim, threads, prev, sp, type_name>>

\* A caller that is not inside a call of retrieve_report.
Idle == [pc |-> "idle", entered |-> Never, sleep |-> 0]

---------------------------------------------------------------------------
\* The two classes are separate objects that share no state: a client program
\* constructs one of them, with an empty tracker, and calls it again and
\* again.  SpTabReportRetrieval.__init__ ends with custom_mode().
Init ==
    /\ client \in {"orders", "reports"}
    /\ logger = <<>>
    /\ saved = {}
    /\ mwsJobs = [k \in Keys |-> 0]
    /\ d = <<>>
    /\ spJobs = [k \in Keys |-> 0]
    /\ bulk = FALSE
    /\ lim = <<>>
    /\ issued = NothingIssued(None)
    /\ threads = [k \in Keys |-> Idle]
    /\ sp = NoSp
    /\ type_name = (IF client = "reports" THEN ConstructedTypeName ELSE None)
    /\ prev = [k \in Keys |-> NoPrev]
    /\ last = ModeCall(None)

Next ==
    \/ \E k \in Keys : RetrieveOrders(k)
    \/ \E k \in Keys : RetrieveReport(k)

Spec == Init /\ [][Next]_vars

\* A client program that retrieves reports and switches between bulk mode and
\* custom mode.
InitBulk == Init /\ client = "reports"

\* The keys that program retrieves.
BulkKeys == {"k1"}

NextBulk ==
    \/ BulkMode
    \/ CustomMode
    \/ \E k \in BulkKeys : RetrieveReport(k)

SpecBulk == InitBulk /\ [][NextBulk]_vars

---------------------------------------------------------------------------
\* Two callers on separate threads that share one SpTabReportRetrieval in bulk
\* mode, each retrieving its own key.  __wait takes no lock.  A thread that
\* sleeps in time.sleep lets the other run; what a thread does between two
\* sleeps is taken as one step, which leaves out the interleavings inside such
\* a stretch.  The reports of the keys were created before bulk_mode() was
\* called and stay in the queue, so that every call is a poll: __wait(GET_REPORT)
\* and get_report.

\* How far below 0 the callers take the counter of GET REPORT before they stop
\* calling.
MaxOverdrawn == 2

\* What get_report answers while the callers poll.
ThreadPollAnswers == {"IN_QUEUE"}

\* The state after retrieve_report has created the report of each key in
\* custom mode and bulk_mode() has been called.
InitThreads ==
    /\ client = "reports"
    /\ logger = <<>>
    /\ saved = {}
    /\ mwsJobs = [k \in Keys |-> 0]
    /\ d = [k \in Keys |-> init_report_tracking(SpReportId(k, 1), None)]
    /\ spJobs = [k \in Keys |-> 1]
    /\ bulk = TRUE
    /\ lim = bulk_mode_state
    /\ issued = NothingIssued(None)
    /\ threads = [k \in Keys |-> Idle]
    /\ sp = NoSp
    /\ type_name = ConstructedTypeName
    /\ prev = [k \in Keys |-> NoPrev]
    /\ last = ModeCall("bulk_mode")

\* Lines 716-722 up to the sleep: the last-request time becomes curr, whose
\* age is the time since __wait was entered, and the counter goes down by one;
\* at 0 the thread goes to sleep for the cooldown, otherwise __wait returns.
StampAndCount(k, entered) ==
    LET left == lim["GET_REPORT"].left - 1
    IN  /\ lim' = [lim EXCEPT !["GET_REPORT"] = [left |-> left, t_last |-> entered]]
        /\ threads' = [threads EXCEPT ![k] =
                          IF left = 0
                          THEN [pc |-> "sleep_cooldown", entered |-> Never, sleep |-> Cooldown]
                          ELSE [pc |-> "get_report", entered |-> Never, sleep |-> 0]]

\* Lines 554-555, 652 and 690-714: the caller of key k calls retrieve_report,
\* which finds a report to poll and enters __wait(GET_REPORT): curr is read,
\* and the thread goes to sleep for the spacing or goes on at once.
ThreadEnter(k) ==
    /\ bulk /\ threads[k].pc = "idle"
    /\ is_report_created(k) /\ d[k].Status \in WAITING_STATUS /\ d[k].ReportId # NoId
    /\ lim["GET_REPORT"].left > -MaxOverdrawn
    /\ LET spacing == SpacingSleep("GET_REPORT", lim["GET_REPORT"].t_last)
       IN  IF spacing > 0
           THEN /\ threads' = [threads EXCEPT ![k] =
                                  [pc |-> "sleep_spacing", entered |-> 0, sleep |-> spacing]]
                /\ lim' = lim
           ELSE StampAndCount(k, 0)
    /\ UNCHANGED <<client, logger, saved, mwsJobs, d, spJobs, bulk, issued, prev, last, sp, type_name>>

\* Lines 714-720: the sleep for the spacing is over.
ThreadWakeSpacing(k) ==
    /\ threads[k].pc = "sleep_spacing" /\ threads[k].sleep = 0
    /\ StampAndCount(k, threads[k].entered)
    /\ UNCHANGED <<client, logger, saved, mwsJobs, d, spJobs, bulk, issued, prev, last, sp, type_name>>

\* Lines 721-722: the sleep for the cooldown is over, the counter starts again.
ThreadWakeCooldown(k) ==
    /\ threads[k].pc = "sleep_cooldown" /\ threads[k].sleep = 0
    /\ lim' = [lim EXCEPT !["GET_REPORT"].left = BurstCapacity]
    /\ threads' = [threads EXCEPT ![k] = [pc |-> "get_report", entered |-> Never, sleep |-> 0]]
    /\ UNCHANGED <<client, logger, saved, mwsJobs, d, spJobs, bulk, issued, prev, last, sp, type_name>>

\* Lines 655-678 and 566: __wait has returned; get_report is requested, the
\* tracker is updated and retrieve_report returns.
ThreadGetReport(k) ==
    /\ threads[k].pc = "get_report"
    /\ \E p \in ThreadPollAnswers :
          LET r == update_report_status_call(d[k], p, CHOOSE f \in DocumentAnswers : TRUE)
          IN  /\ d' = TrackAll(d, k, r.writes)
              /\ prev' = [prev EXCEPT ![k] = PrevAfter(@, r, {}, FALSE)]
              /\ last' = Call("reports", k, Tracked(k), Tracked(k), prev[k],
                              [r EXCEPT !.ret = r.ret[1]], r.ret[2], <<>>)
    /\ threads' = [threads EXCEPT ![k] = Idle]
    /\ UNCHANGED <<client, logger, saved, mwsJobs, spJobs, bulk, lim, issued, sp, type_name>>

\* The callers that are asleep with time left to sleep.
Sleepers == {k \in Keys : threads[k].sleep > 0}

\* The ticks until the first sleeper is due; one tick when nobody sleeps.
NextWake ==
    IF Sleepers = {} THEN 1
    ELSE CHOOSE n \in {threads[k].sleep : k \in Sleepers} :
            \A k \in Sleepers : n <= threads[k].sleep

\* Time passes until the first sleeper is due.
TimePasses ==
    /\ lim' = [c \in DOMAIN lim |-> [lim[c] EXCEPT !.t_last = Older(@, NextWake, MinSpacing(c))]]
    /\ threads' = [k \in Keys |->
                      [threads[k] EXCEPT !.sleep = IF @ > NextWake THEN @ - NextWake ELSE 0,
                                         !.entered = Older(@, NextWake, MinSpacing("GET_REPORT"))]]
    /\ UNCHANGED <<client, logger, saved, mwsJobs, d, spJobs, bulk, issued, prev, last, sp, type_name>>

NextThreads ==
    \/ \E k \in Keys : ThreadEnter(k)
    \/ \E k \in Keys : ThreadWakeSpacing(k)
    \/ \E k \in Keys : ThreadWakeCooldown(k)
    \/ \E k \in Keys : ThreadGetReport(k)
    \/ TimePasses

SpecThreads == InitThreads /\ [][NextThreads]_vars

---------------------------------------------------------------------------
\* SP_Orders_Retrieval (amazon_sp_lib.py).  retrieve_orders asks the service
\* for the orders of a time span batch by batch and, for every order of a
\* batch, for its items.  Every remote request goes through __make_request.
\* One action is the stretch of retrieve_orders that ends with its next remote
\* request or with its return; what the service answers to that request is the
\* input of the action.  An exception of a request is not caught: it ends the
\* call.

\* The largest request_burst_size the constructor is given.  The sizes are
\* positive numbers of requests, as the default 15 is.
MaxBurstSize == 3

\* The batches the service holds for one time span at most.
MaxBatches == 3

\* The orders of one batch at most.
MaxOrdersPerBatch == 2

\* res.get('NextToken') of a payload without the key.
NoToken == <<>>

\* The token the service hands out with batch n for the batch after it.
NextToken(n) == <<"NextToken", n>>

\* The AmazonOrderId values of batch n when it holds m orders.
OrderIds(n, m) == [i \in 1..m |-> <<n, i>>]

\* What get_orders does when it is asked for batch n: it raises, or it returns
\* a payload with the orders of the batch and, unless the batch is the last
\* the service holds, possibly a token.
OrdersAnswers(n) ==
    {[raised |-> "SellingApiException", Orders |-> <<>>, NextToken |-> NoToken]}
    \cup {[raised |-> None, Orders |-> OrderIds(n, m), NextToken |-> t] :
             m \in 0..MaxOrdersPerBatch,
             t \in {NoToken} \cup (IF n < MaxBatches THEN {NextToken(n)} ELSE {})}

\* What get_order_items does: it raises or it returns the items.
ItemsAnswers == {"SellingApiException", None}

\* Lines 129-135: the object after __init__ with request_burst_size = size.
\* The fields from pauses on describe the request made last and the call of
\* retrieve_orders in progress.
sp_init(size) ==
    [request_burst_size |-> size,
     req_count          |-> 0,
     pauses             |-> <<>>,      \* what was slept before the request made last
     after_full         |-> FALSE,     \* that request followed a full burst
     since_burst_pause  |-> 0,         \* requests made since the last burst pause
     count_at_call      |-> 0,         \* req_count when retrieve_orders was called
     pc                 |-> "idle",
     asked              |-> NoToken,   \* NextToken argument of the last get_orders
     preceding          |-> NoToken,   \* NextToken of the payload received before it
     answered           |-> NoToken,   \* NextToken of the payload received last
     token              |-> NoToken,   \* the local variable token
     pending            |-> <<>>,      \* orders of the batch not yet processed
     order_batch        |-> <<>>,      \* __process_payload's order_batch
     orders_data        |-> <<>>,
     received           |-> <<>>,      \* the batches received in this call
     batch_num          |-> 1,
     raised             |-> None,
     result             |-> None]

\* Lines 181-187 with a counter that is not set back after the burst pause.
make_request_no_reset(s) ==
    LET full == s.req_count = s.request_burst_size
    IN  [s EXCEPT !.req_count = @ + 1,
                  !.pauses = IF full THEN <<"burst_pause_time", "request_pause_time">>
                                     ELSE <<"request_pause_time">>,
                  !.after_full = s.since_burst_pause = s.request_burst_size,
                  !.since_burst_pause = IF full THEN 1 ELSE @ + 1]

\* Lines 181-187, __make_request up to the request: when the counter has
\* reached the burst size, sleep burst_pause_time and set the counter to 0;
\* count the request; sleep request_pause_time.
make_request(s) ==
    LET full == s.req_count = s.request_burst_size
    IN  [s EXCEPT !.req_count = (IF full THEN 0 ELSE @) + 1,
                  !.pauses = IF full THEN <<"burst_pause_time", "request_pause_time">>
                                     ELSE <<"request_pause_time">>,
                  !.after_full = s.since_burst_pause = s.request_burst_size,
                  !.since_burst_pause = IF full THEN 1 ELSE @ + 1]

\* Lines 189-191 with the token of the first payload for every later batch.
get_orders_first_token(s, next_token, a) ==
    LET r == make_request(s)
        t == IF s.received = <<>> THEN next_token ELSE NextToken(1)
    IN  IF a.raised # None
        THEN [r EXCEPT !.pc = "raised", !.raised = a.raised, !.asked = t,
                       !.preceding = s.answered]
        ELSE [r EXCEPT !.pc = "batch", !.asked = t,
                       !.preceding = s.answered,
                       !.answered = a.NextToken,
                       !.token = a.NextToken,
                       !.pending = a.Orders,
                       !.order_batch = <<>>,
                       !.received = Append(@, a.Orders)]

\* Lines 189-191 and 344: a get_orders request, by dates (next_token is
\* NoToken) or by token, and what the call keeps of the answer a: token is
\* read from the payload, and the orders of the payload wait to be processed.
\* An exception of the request ends the call.
get_orders(s, next_token, a) ==
    LET r == make_request(s)
    IN  IF a.raised # None
        THEN [r EXCEPT !.pc = "raised", !.raised = a.raised, !.asked = next_token,
                       !.preceding = s.answered]
        ELSE [r EXCEPT !.pc = "batch", !.asked = next_token,
                       !.preceding = s.answered,
                       !.answered = a.NextToken,
                       !.token = a.NextToken,
                       !.pending = a.Orders,
                       !.order_batch = <<>>,
                       !.received = Append(@, a.Orders)]

\* The batch a get_orders request is answered with: the first one when the
\* request is by dates, the one after batch n when it carries NextToken(n).
BatchOf(next_token) == IF next_token = NoToken THEN 1 ELSE next_token[2] + 1

\* Lines 320-342: retrieve_orders is called; the lists are empty, and the first
\* batch is requested by dates.
SpRetrieveOrders ==
    /\ client = "sp_orders"
    /\ sp.pc \in {"idle", "returned", "raised"}
    /\ \E a \in OrdersAnswers(1) :
          sp' = get_orders([sp EXCEPT !.count_at_call = sp.req_count,
                                      !.orders_data = <<>>,
                                      !.received = <<>>,
                                      !.answered = NoToken,
                                      !.batch_num = 1,
                                      !.raised = None,
                                      !.result = None],
                           NoToken, a)
    /\ UNCHANGED <<client, logger, saved, mwsJobs, d, spJobs, bulk, lim, issued, threads, prev, last, type_name>>

\* Lines 256-262, one round of the loop of __process_payload: the order is
\* made, its items are requested, and the order joins order_batch.
SpProcessOrder ==
    /\ client = "sp_orders"
    /\ sp.pc = "batch"
    /\ sp.pending # <<>>
    /\ \E a \in ItemsAnswers :
          LET r == make_request(sp)
          IN  sp' = IF a # None
                    THEN [r EXCEPT !.pc = "raised", !.raised = a]
                    ELSE [r EXCEPT !.order_batch = Append(@, Head(sp.pending)),
                                   !.pending = Tail(@)]
    /\ UNCHANGED <<client, logger, saved, mwsJobs, d, spJobs, bulk, lim, issued, threads, prev, last, type_name>>

\* Lines 346-357 with the batch put in front of the batches before it.
end_batch_in_front(s) ==
    [s EXCEPT !.orders_data = s.order_batch \o @, !.batch_num = @ + 1]

\* Lines 346-353: the batch is processed; its orders are added to orders_data.
end_batch(s) ==
    [s EXCEPT !.orders_data = @ \o s.order_batch, !.batch_num = @ + 1]

\* Lines 345-358, the end of a round of the while loop: with a token the next
\* batch is requested with it; without one the loop ends and the orders
\* collected are returned.
SpEndBatch ==
    /\ client = "sp_orders"
    /\ sp.pc = "batch"
    /\ sp.pending = <<>>
    /\ LET s == end_batch(sp)
       IN  IF s.token # NoToken
           THEN \E a \in OrdersAnswers(BatchOf(s.token)) : sp' = get_orders(s, s.token, a)
           ELSE sp' = [s EXCEPT !.pc = "returned", !.result = s.orders_data]
    /\ UNCHANGED <<client, logger, saved, mwsJobs, d, spJobs, bulk, lim, issued, threads, prev, last, type_name>>

\* A program that constructs one SP_Orders_Retrieval and calls retrieve_orders
\* again and again.
InitSp ==
    /\ client = "sp_orders"
    /\ logger = <<>>
    /\ saved = {}
    /\ mwsJobs = [k \in Keys |-> 0]
    /\ d = <<>>
    /\ spJobs = [k \in Keys |-> 0]
    /\ bulk = FALSE
    /\ lim = <<>>
    /\ issued = NothingIssued(None)
    /\ threads = [k \in Keys |-> Idle]
    /\ sp \in {sp_init(size) : size \in 1..MaxBurstSize}
    /\ type_name = None
    /\ prev = [k \in Keys |-> NoPrev]
    /\ last = ModeCall(None)

NextSp ==
    \/ SpRetrieveOrders
    \/ SpProcessOrder
    \/ SpEndBatch

\* A call that was made goes on: its sleeps end and its requests are answered.
SpecSp == InitSp /\ [][NextSp]_vars /\ WF_vars(SpProcessOrder \/ SpEndBatch)

---------------------------------------------------------------------------
\* The constructor of SpTabReportRetrieval.

\* What a program passes as tracker: an SpReportTracker or something else.
TrackerArgs == {"SpReportTracker", "dict"}

\* What a program passes as report_type_name: nothing (the default None), the
\* name of a tab report type, or another string.
TypeNameArgs == {None, "Inventory Report", "Flat File Feedback Report", "Sales Report"}

\* Lines 407-424, __init__(tracker, credentials, report_type_name): the
\* membership test of the name comes first, then the test of the tracker.
sp_tab_init(tracker, report_type_name) ==
    IF report_type_name \notin TAB_REPORT_TYPES
    THEN [raised |-> "ValueError", type_name |-> None]
    ELSE IF tracker # "SpReportTracker"
    THEN [raised |-> "TypeError", type_name |-> None]
    ELSE [raised |-> None, type_name |-> report_type_name]

\* The record of a call of the constructor.
ConstructCall(tracker, report_type_name, raised) ==
    [ModeCall("__init__") EXCEPT
        !.key = [tracker |-> tracker, report_type_name |-> report_type_name],
        !.raised = raised]

\* The program constructs its SpTabReportRetrieval; when the constructor
\* raises there is no object, and the program may try again.  The constructor
\* ends with custom_mode() (line 424).
Construct ==
    /\ client = "program"
    /\ \E tracker \in TrackerArgs, name \in TypeNameArgs :
          LET r == sp_tab_init(tracker, name)
          IN  /\ client' = IF r.raised = None THEN "reports" ELSE client
              /\ type_name' = r.type_name
              /\ last' = ConstructCall(tracker, name, r.raised)
    /\ bulk' = FALSE
    /\ issued' = NothingIssued(None)
    /\ UNCHANGED <<logger, saved, mwsJobs, d, spJobs, lim, threads, sp, prev>>

\* Lines 426-435, get_report_type_name().
GetReportTypeName ==
    /\ client = "reports"
    /\ last' = [ModeCall("get_report_type_name") EXCEPT !.out = type_name]
    /\ UNCHANGED <<client, logger, saved, mwsJobs, d, spJobs, bulk, lim, issued, threads, sp, type_name, prev>>

\* A program that constructs an SpTabReportRetrieval with a DictTracker and
\* then retrieves reports with it.
InitConstruct ==
    /\ client = "program"
    /\ logger = <<>>
    /\ saved = {}
    /\ mwsJobs = [k \in Keys |-> 0]
    /\ d = <<>>
    /\ spJobs = [k \in Keys |-> 0]
    /\ bulk = FALSE
    /\ lim = <<>>
    /\ issued = NothingIssued(None)
    /\ threads = [k \in Keys |-> Idle]
    /\ sp = NoSp
    /\ type_name = None
    /\ prev = [k \in Keys |-> NoPrev]
    /\ last = ModeCall(None)

NextConstruct ==
    \/ Construct
    \/ GetReportTypeName
    \/ \E k \in Keys : RetrieveReport(k)

SpecConstruct == InitConstruct /\ [][NextConstruct]_vars

---------------------------------------------------------------------------
\* A program that calls retrieve_orders for its keys again and again while the
\* failures of the service and of the save are transient.

\* The key still has a request to make, and the service accepts no further
\* request for it.
OutOfJobs(k) == NeedsCreate(get_info(k)) /\ mwsJobs[k] = MaxJobs

\* A call of retrieve_orders; the service does not lose a request it accepted
\* (the read-back of a new request fails) when it would accept no other one.
RetrieveOrdersRetry(k) ==
    /\ RetrieveOrders(k)
    /\ ~OutOfJobs(k)'

\* A call in which nothing fails: the request is made and read back, or the
\* request is found or polled done, the report holds orders and they are saved.
RetrieveOrdersSucceeds(k) ==
    /\ RetrieveOrdersRetry(k)
    /\ last'.raised = None
    /\ last'.ret = "CREATED_REQUEST" \/ last'.committed

InitRetry == Init /\ client = "orders"

\* The keys that program retrieves.
RetryKeys == {"k1"}

NextRetry == \E k \in RetryKeys : RetrieveOrdersRetry(k)

\* The caller keeps calling for every key, and of the calls for a key that is
\* not saved yet, one in which nothing fails comes in the end.
SpecRetry ==
    InitRetry /\ [][NextRetry]_vars /\ \A k \in RetryKeys : WF_vars(RetrieveOrdersSucceeds(k))

---------------------------------------------------------------------------
\* Claims about retrieve_orders and retrieve_report.

OrdersCall == last.api = "orders"
ReportsCall == last.api = "reports"

\* The record the tracker holds for the key of the last call.
Now(k) == IF OrdersCall THEN get_info(k) ELSE Tracked(k)

\* The steps of retrieve_orders that are remote requests, by class.
OrdersCreateSteps == {"RequestReport", "ReadBack"}
OrdersRemoteSteps == OrdersCreateSteps \cup {"Poll", "GetReport"}

\* The steps of retrieve_report that are remote requests.
ReportsRemoteSteps == {"createReport", "getReport", "getReportDocument"}

\* C1: once a call of retrieve_orders for a key has returned SAVED_ORDERS or
\* ORDERS_ALREADY_SAVED, every later call for that key returns
\* ORDERS_ALREADY_SAVED and issues no remote request.
C1_Idempotence ==
    (OrdersCall /\ last.prev.returned_saved)
        => (last.ret = "ORDERS_ALREADY_SAVED" /\ last.reqs = <<>>)

\* C2: once the entry of a key has saving_status SAVED, no later call of
\* retrieve_orders for that key issues a remote request, and the entry of that
\* key is never written again: it stays as it is in every step.
C2_SavedIsTerminal ==
    [][\A k \in DOMAIN logger :
         logger[k].saving_status = "SAVED"
            => /\ k \in DOMAIN logger' /\ logger'[k] = logger[k]
               /\ (last'.key = k => (last'.reqs = <<>> /\ last'.writes = <<>>))]_vars

C2_Witness ==
    /\ OrdersCall /\ last.ret = "ORDERS_ALREADY_SAVED"
    /\ \E e \in last.pre : e.saving_status = "SAVED"
    /\ last.prev.returned_saved

\* The saving_status values of a call in order: the one found, then those written.
SavingSeq ==
    LET found == IF last.pre = {} THEN <<>>
                 ELSE <<(CHOOSE e \in last.pre : TRUE).saving_status>>
    IN  found \o [i \in 1..Len(last.writes) |-> last.writes[i].saving_status]

\* The order of C3: NOT_SAVED and SAVE_FAILED (which may alternate), then
\* EMPTY_SAVE or SAVED.
SavingRank(st) == IF st \in {"NOT_SAVED", "SAVE_FAILED"} THEN 0 ELSE 1

\* C3 as stated: the saving_status values written for a key only move forward
\* in the order NOT_SAVED, SAVE_FAILED (alternating with NOT_SAVED), then
\* EMPTY_SAVE or SAVED; an entry that reached EMPTY_SAVE or SAVED never goes
\* back to SAVE_FAILED or NOT_SAVED, and SAVED never changes.
C3_MonotonicProgress ==
    OrdersCall =>
        \A i \in 1..(Len(SavingSeq) - 1) :
            /\ SavingRank(SavingSeq[i]) <= SavingRank(SavingSeq[i + 1])
            /\ SavingSeq[i] = "SAVED" => SavingSeq[i + 1] = "SAVED"

\* The moves of saving_status that retrieve_orders makes.
SavingMoves ==
    ({"NOT_SAVED"} \X {"NOT_SAVED", "SAVE_FAILED", "EMPTY_SAVE", "SAVED"})
    \cup ({"SAVE_FAILED", "EMPTY_SAVE"} \X {"SAVE_FAILED", "EMPTY_SAVE", "SAVED"})
    \cup {<<"SAVED", "SAVED">>}

\* C3 amended: the first saving_status written for a key is NOT_SAVED; an
\* entry that has left NOT_SAVED never goes back to it; SAVE_FAILED and
\* EMPTY_SAVE can follow each other in either direction (a fetch attempted again
\* after an empty save can fail) and both can move to SAVED; SAVED never changes.
C3_MonotonicProgressAmended ==
    OrdersCall =>
        /\ (last.pre = {} /\ SavingSeq # <<>>) => SavingSeq[1] = "NOT_SAVED"
        /\ \A i \in 1..(Len(SavingSeq) - 1) :
               <<SavingSeq[i], SavingSeq[i + 1]>> \in SavingMoves

C3_Witness ==
    /\ OrdersCall /\ Len(SavingSeq) = 2
    /\ SavingSeq[1] = "EMPTY_SAVE" /\ SavingSeq[2] = "SAVE_FAILED"

\* C4: after a CREATE REPORT of retrieve_report failed with a
\* SellingApiException, the next call of retrieve_report for that key issues a
\* CREATE REPORT request again.
C4_CreateRetriedAfterFailedCreate ==
    (ReportsCall /\ last.prev.failed = "createReport")
        => \E i \in 1..Len(last.reqs) : last.reqs[i].op = "createReport"

\* C5: after a failed creation in retrieve_orders (request_report or the
\* reading back of the request raised), the next call for that key issues
\* RequestReport first, and neither a poll of an older request nor a GetReport.
C5_OrdersCreateRetried ==
    (OrdersCall /\ last.prev.failed \in OrdersCreateSteps)
        => /\ last.reqs # <<>>
           /\ last.reqs[1] = Req("RequestReport", last.key)
           /\ \A i \in 2..Len(last.reqs) :
                 i = 2 /\ last.reqs[i].op = "GetReportRequestList"
                       /\ last.reqs[i].arg # NoId

C5_Witness ==
    /\ OrdersCall /\ last.prev.failed \in OrdersCreateSteps
    /\ last.ret = "CREATED_REQUEST" /\ Len(last.reqs) = 2

\* C6: when the creation in retrieve_orders raises, the exception reaches the
\* caller and the logger then holds for the key an entry with saving_status
\* NOT_SAVED, the exception type as last_err_type, no request id and no report id.
C6_FailureRecording ==
    (OrdersCall /\ last.failed \in OrdersCreateSteps)
        => /\ last.raised # None /\ last.raised = last.err /\ last.ret = None
           /\ \E e \in get_info(last.key) :
                 /\ e.saving_status = "NOT_SAVED"
                 /\ e.last_err_type = last.err /\ e.last_err_type # None
                 /\ e.request_id = NoId /\ e.report_id = NoId

C6_Witness ==
    /\ OrdersCall /\ last.failed = "ReadBack" /\ last.raised = "MWSError"
    /\ \E e \in last.pre : e.processing_status = "REQUEST_FAILED"

\* The diagnostic of the last call's failure is what the tracker holds.
DiagnosticTracked ==
    /\ last.writes # <<>>
    /\ \E e \in Now(last.key) :
          /\ e = last.writes[Len(last.writes)]
          /\ IF OrdersCall THEN e.last_err_type = last.err
             ELSE e.Errors \in {CreateDiagnostic(last.err), UpdateDiagnostic(last.err)}

CaughtByRetrieveReport ==
    /\ ReportsCall /\ last.err \in SpApiErrs
    /\ \/ last.failed \in {"createReport", "getReport"}
       \/ /\ last.failed = "getReportDocument"
          /\ \E e \in last.pre : e.Status \in WAITING_STATUS

C8_GuaranteedWrite ==
    last.reqs # <<>> => last.writes # <<>>

\* C9: when the poll raises (get_report_request_list in retrieve_orders,
\* get_report in retrieve_report), the call writes one record: the record
\* found before the call, with its processing status and its ids, and with
\* the diagnostic of the failure; that record is what the tracker then holds.
C9_PollFailureKeepsStatus ==
    /\ (OrdersCall /\ last.failed = "Poll")
          => \E e \in last.pre :
                /\ last.writes = <<[e EXCEPT !.last_err_type = last.err]>>
                /\ last.err # None
                /\ get_info(last.key) = {last.writes[1]}
    /\ (ReportsCall /\ last.failed = "getReport")
          => \E e \in last.pre :
                /\ last.writes = <<[e EXCEPT !.Errors = UpdateDiagnostic(last.err)]>>
                /\ Tracked(last.key) = {last.writes[1]}

C9_Witness ==
    /\ OrdersCall /\ last.failed = "Poll"
    /\ \E e \in last.pre : e.processing_status = "_CANCELLED_"
    /\ \E e \in get_info(last.key) :
          e.processing_status = "_CANCELLED_" /\ e.last_err_type = "MWSError"

\* C10: a failed GetReport in retrieve_orders leaves processing_status _DONE_
\* and sets saving_status SAVE_FAILED with the exception type; the next call
\* for that key issues GetReport for the tracked report id and nothing else.
C10_FetchFailure ==
    /\ (OrdersCall /\ last.failed = "GetReport")
          => \E e \in get_info(last.key) :
                /\ e.processing_status = "_DONE_" /\ e.saving_status = "SAVE_FAILED"
                /\ e.last_err_type = last.err /\ e.last_err_type # None
    /\ (OrdersCall /\ last.prev.failed = "GetReport")
          => \E e \in last.pre :
                /\ e.report_id # NoId
                /\ last.reqs = <<Req("GetReport", e.report_id)>>

C10_Witness ==
    /\ OrdersCall /\ last.prev.failed = "GetReport" /\ last.failed = "GetReport"
    /\ Len(last.reqs) = 1

\* The last call fetched a report that gave no record: GetReport was its last
\* request, nothing raised and save_orders committed nothing.
FetchedNoRecord ==
    /\ OrdersCall /\ last.reqs # <<>> /\ last.reqs[Len(last.reqs)].op = "GetReport"
    /\ last.err = None /\ ~last.committed

\* C11: when the report fetched by retrieve_orders gives no record, the call
\* returns without raising and the entry's saving_status becomes EMPTY_SAVE;
\* from then on no call for that key issues RequestReport or a poll: each call
\* issues GetReport for the tracked report id and nothing else, until a fetch
\* has saved orders (the entry is SAVED, and calls issue no request at all).
C11_EmptySave ==
    /\ FetchedNoRecord
          => /\ last.raised = None /\ last.ret # None
             /\ \E e \in get_info(last.key) : e.saving_status = "EMPTY_SAVE"
    /\ (OrdersCall /\ last.prev.emptied)
          => \E e \in last.pre :
                /\ e.report_id # NoId
                /\ last.reqs = IF e.saving_status = "SAVED" THEN <<>>
                               ELSE <<Req("GetReport", e.report_id)>>

C11_Witness ==
    /\ FetchedNoRecord /\ last.prev.emptied
    /\ \E e \in last.pre : e.saving_status = "EMPTY_SAVE"
    /\ \E e \in get_info(last.key) : e.saving_status = "EMPTY_SAVE"


\* C12: the status returned tells an empty fetch from a save: a call whose
\* fetched report gave no record does not return the status of a save
\* (SAVED_ORDERS), and a call returns SAVED_ORDERS only when the saving_status
\* it wrote is SAVED.
C12_StatusDistinguishesEmpty ==
    /\ FetchedNoRecord => last.ret # "SAVED_ORDERS"
    /\ (OrdersCall /\ last.ret = "SAVED_ORDERS")
          => /\ last.writes # <<>>
             /\ last.writes[Len(last.writes)].saving_status = "SAVED"


\* The remote jobs the service has accepted for the key of the last call.
JobsAccepted == IF OrdersCall THEN mwsJobs[last.key] ELSE spJobs[last.key]

\* The record found by the last call says that the remote service reported the
\* key's job as failed for good.
FoundTerminalFailure ==
    \E e \in last.pre :
        IF OrdersCall THEN e.request_id # NoId /\ e.processing_status = "_CANCELLED_"
        ELSE e.ReportId # NoId /\ e.Status = "FATAL"

\* C13: a call of retrieve_orders or retrieve_report, also one that follows a
\* failed call for the same key, never has a second remote job accepted for a
\* key whose earlier remote job was accepted and has not been reported as
\* failed for good: a call in which a job is accepted either gets the key's
\* first job or found a record of a terminal failure.
C13_NoDuplicateJob ==
    last.accepted => (JobsAccepted = 1 \/ FoundTerminalFailure)


\* C14: in every record the tracker holds, the artifact id (report_id in the
\* logger of retrieve_orders, DocumentId in the tracker of retrieve_report) is
\* set exactly when the processing state recorded for the key is done (_DONE_,
\* DONE).
C14_ArtifactIdIffDone ==
    /\ \A k \in DOMAIN logger :
          (logger[k].report_id # NoId) <=> (logger[k].processing_status = "_DONE_")
    /\ \A k \in DOMAIN d :
          (d[k].DocumentId # NoId) <=> (d[k].Status = "DONE")

C14_Witness ==
    /\ ReportsCall /\ last.failed = "getReportDocument"
    /\ \E e \in last.pre : e.Status = "IN_QUEUE" /\ e.DocumentId = NoId
    /\ \E e \in Tracked(last.key) :
          e.Status = "DONE" /\ e.DocumentId = ReportDocumentId(e.ReportId)


\* The last call found no record and had a remote job created without error.
CreatedFromNothing == last.pre = {} /\ last.accepted /\ last.err = None

\* The number of requests of the last call with one of the given operations.
CountReqs(ops) == Cardinality({i \in 1..Len(last.reqs) : last.reqs[i].op \in ops})

\* C15 as stated: when the tracker has no record for the key and the remote
\* create succeeds, the call issues exactly one create request, returns
\* CREATED, and the tracker then holds a record with the remote job id, a
\* processing state that is the state S of the remote job, and (where there is
\* a saving state) NOT_SAVED.
C15_CreationRow ==
    /\ (OrdersCall /\ CreatedFromNothing)
          => /\ CountReqs({"RequestReport"}) = 1
             /\ last.ret = "CREATED_REQUEST"
             /\ \E e \in get_info(last.key) :
                   /\ e.request_id = MwsRequestId(last.key, 1)
                   /\ e.processing_status \in MwsStatuses
                   /\ e.saving_status = "NOT_SAVED"
    /\ (ReportsCall /\ CreatedFromNothing)
          => /\ CountReqs({"createReport"}) = 1
             /\ last.ret = "REPORT_CREATED"
             /\ \E e \in Tracked(last.key) :
                   /\ e.ReportId = SpReportId(last.key, 1)
                   /\ e.Status \in SpStatuses

\* C15 amended: retrieve_orders issues one RequestReport and reads the new
\* request back with one GetReportRequestList, returns CREATED_REQUEST, and
\* the entry holds the request id, the ReportProcessingStatus read back and
\* NOT_SAVED.  retrieve_report issues one createReport and nothing else,
\* returns REPORT_CREATED, and the tracker holds the report id, the errors
\* returned with it, no document id and Status None: the state of the new
\* report is not known before the first poll.
C15_CreationRowAmended ==
    /\ (OrdersCall /\ CreatedFromNothing)
          => /\ last.reqs = <<Req("RequestReport", last.key),
                              Req("GetReportRequestList", MwsRequestId(last.key, 1))>>
             /\ last.ret = "CREATED_REQUEST"
             /\ \E e \in get_info(last.key) :
                   /\ e.request_id = MwsRequestId(last.key, 1)
                   /\ e.processing_status \in MwsStatuses
                   /\ e.saving_status = "NOT_SAVED" /\ e.last_err_type = None
                   /\ last.writes = <<e>>
    /\ (ReportsCall /\ CreatedFromNothing)
          => /\ last.reqs = <<Req("createReport", last.key)>>
             /\ last.ret = "REPORT_CREATED"
             /\ \E e \in Tracked(last.key) :
                   /\ e.ReportId = SpReportId(last.key, 1)
                   /\ e.Status = None /\ e.DocumentId = NoId
                   /\ e.Errors \in CreateResErrors
                   /\ last.writes = <<e>>

C15_Witness ==
    /\ ReportsCall /\ CreatedFromNothing /\ last.ret = "REPORT_CREATED"
    /\ \E e \in Tracked(last.key) : e.ReportId # NoId /\ e.Status = None


\* The record found by the last call holds a terminal failure: the create
\* attempt failed (REQUEST_FAILED; no report id), or the remote service
\* reported the job as cancelled or fatal.
FoundFailedJob ==
    \E e \in last.pre :
        IF OrdersCall THEN e.processing_status \in {"REQUEST_FAILED", "_CANCELLED_"}
        ELSE e.ReportId = NoId \/ e.Status = "FATAL"

\* C16: whenever the record found holds a terminal failure, the call issues a
\* CREATE request first (RequestReport, createReport), as it does when there
\* is no record.
C16_RecreateAfterTerminalFailure ==
    FoundFailedJob
        => /\ last.reqs # <<>>
           /\ last.reqs[1].op = IF OrdersCall THEN "RequestReport" ELSE "createReport"


\* The records of the poll row: tracked, not SAVED, and waiting for the remote
\* job (not done, and not a failed creation or a job reported as fatal, which
\* have rows of their own).
PollRowEntries ==
    IF OrdersCall
    THEN {e \in last.pre : /\ e.saving_status # "SAVED"
                           /\ e.processing_status \notin {"_DONE_", "REQUEST_FAILED"}}
    ELSE {e \in last.pre : e.Status \in WAITING_STATUS /\ e.ReportId # NoId}

\* C17: a call that finds a record of the poll row issues exactly one poll
\* (GetReportRequestList for the tracked request id, getReport for the tracked
\* report id) and no create.  When the poll answers a state that is not done,
\* the call issues nothing else, the record written is the record found with
\* the polled state as its processing state, and the call returns
\* REQUEST_PROCESSING (retrieve_orders) or UPDATED_STATUS with the polled
\* state, which is not DONE (retrieve_report).
C17_PollRow ==
    /\ OrdersCall =>
          \A e \in PollRowEntries :
             /\ last.reqs # <<>>
             /\ last.reqs[1] = Req("GetReportRequestList", e.request_id)
             /\ CountReqs({"GetReportRequestList"}) = 1
             /\ CountReqs({"RequestReport"}) = 0
             /\ (last.err = None /\ \E n \in get_info(last.key) : n.processing_status # "_DONE_")
                   => /\ Len(last.reqs) = 1
                      /\ last.ret = "REQUEST_PROCESSING"
                      /\ \E s \in MwsStatuses \ {"_DONE_"} :
                            /\ last.writes = <<[e EXCEPT !.processing_status = s,
                                                         !.last_err_type = None]>>
                            /\ get_info(last.key) = {last.writes[1]}
    /\ ReportsCall =>
          \A e \in PollRowEntries :
             /\ last.reqs # <<>>
             /\ last.reqs[1] = Req("getReport", e.ReportId)
             /\ CountReqs({"getReport"}) = 1
             /\ CountReqs({"createReport"}) = 0
             /\ (last.err = None /\ \E n \in Tracked(last.key) : n.Status # "DONE")
                   => /\ Len(last.reqs) = 1
                      /\ last.ret = "UPDATED_STATUS"
                      /\ last.out \in SpStatuses \ {"DONE"}
                      /\ Tracked(last.key) = {[e EXCEPT !.Status = last.out, !.Errors = None]}

C17_Witness ==
    /\ ReportsCall /\ PollRowEntries # {}
    /\ \E e \in last.pre : e.Status = None
    /\ last.ret = "UPDATED_STATUS" /\ last.out = "IN_QUEUE"
    /\ \E n \in Tracked(last.key) : n.Status = "IN_QUEUE"


\* The poll of the last call of retrieve_orders answered _DONE_ for a record of
\* the poll row.
PolledDone ==
    /\ OrdersCall /\ PollRowEntries # {}
    /\ last.failed # "Poll"
    /\ last.writes # <<>> /\ last.writes[1].processing_status = "_DONE_"

\* C18: when the entry found is not done and the poll of the call answers
\* _DONE_, the same call of retrieve_orders goes on to GetReport for the
\* GeneratedReportId; when the report gives a record and save_orders succeeds,
\* the call returns SAVED_ORDERS and the entry then has processing_status
\* _DONE_, the report id and saving_status SAVED.
C18_PollThenFetch ==
    PolledDone
        => \E e \in PollRowEntries :
              /\ last.reqs = <<Req("GetReportRequestList", e.request_id),
                               Req("GetReport", GeneratedReportId(e.request_id))>>
              /\ last.committed
                    => /\ last.ret = "SAVED_ORDERS" /\ last.raised = None
                       /\ last.key \in saved
                       /\ get_info(last.key) =
                             {[e EXCEPT !.processing_status = "_DONE_",
                                        !.report_id = GeneratedReportId(e.request_id),
                                        !.saving_status = "SAVED",
                                        !.last_err_type = None]}

C18_Witness ==
    /\ PolledDone /\ last.committed /\ last.ret = "SAVED_ORDERS"
    /\ \E e \in last.pre : e.processing_status = "_SUBMITTED_"
    /\ \E n \in get_info(last.key) : n.saving_status = "SAVED"


\* C25: a call of retrieve_orders or retrieve_report for a key k writes only
\* the tracker record of k, when it returns and when it raises: the record
\* found by the call is the one the tracker held for k, every entry it logs
\* carries the key k, and for every other key the tracker holds after the call
\* what it held before (no record, or the same record).
C25_KeysNeverContend ==
    [][/\ last'.key \in Keys
          => /\ last'.pre = (IF last'.api = "orders" THEN get_info(last'.key)
                             ELSE Tracked(last'.key))
             /\ last'.api = "orders"
                   => \A i \in 1..Len(last'.writes) : last'.writes[i].key = last'.key
       /\ \A k \in Keys \ {last'.key} :
             /\ (k \in DOMAIN logger') <=> (k \in DOMAIN logger)
             /\ k \in DOMAIN logger => logger'[k] = logger[k]
             /\ (k \in DOMAIN d') <=> (k \in DOMAIN d)
             /\ k \in DOMAIN d => d'[k] = d[k]]_vars

\* A call for k1 that raised and logged its failure while the logger holds a
\* saved entry for k2.
C25_Witness ==
    /\ OrdersCall /\ last.key = "k1" /\ last.raised # None /\ last.writes # <<>>
    /\ "k2" \in DOMAIN logger /\ logger["k2"].saving_status = "SAVED"
    /\ logger["k1"].saving_status = "SAVE_FAILED"


\* The remote operation that a failing step of a call requests.
OpOfStep(step) ==
    IF step \in {"ReadBack", "Poll"} THEN "GetReportRequestList" ELSE step

\* The remote operations by class: create, poll, fetch.
RemoteOps ==
    {"RequestReport", "GetReportRequestList", "GetReport",
     "createReport", "getReport", "getReportDocument"}

\* C26: within one call of retrieve_orders or retrieve_report each remote
\* operation (create, poll, fetch) is requested at most once, and when a
\* remote request fails, that request is the last one of the call: it is not
\* issued again, and nothing is requested after it.
C26_NoAutomaticRetry ==
    /\ \A op \in RemoteOps : CountReqs({op}) <= 1
    /\ last.failed \in OrdersRemoteSteps \cup ReportsRemoteSteps
          => /\ last.reqs # <<>>
             /\ last.reqs[Len(last.reqs)].op = OpOfStep(last.failed)

\* A call that polled, found the report done, and whose GetReport raised.
C26_Witness ==
    /\ OrdersCall /\ Len(last.reqs) = 2 /\ last.failed = "GetReport"
    /\ last.raised = "MWSError" /\ last.reqs[2].op = "GetReport"


\* The steps of retrieve_orders that build the records and commit them.
BuildAndSaveSteps == {"build_df", "save_orders"}

\* C27: in retrieve_orders an entry with saving_status SAVED is written only
\* by a call in which __build_df gave records and save_orders returned without
\* raising (the orders of the key are committed, and the call does not raise);
\* when __build_df or save_orders raises, the call writes one entry after the
\* fetch, with saving_status SAVE_FAILED and the type of the exception, that
\* entry is what the logger then holds, and the exception reaches the caller.
C27_SavedReflectsCommit ==
    OrdersCall =>
        /\ (\E i \in 1..Len(last.writes) : last.writes[i].saving_status = "SAVED")
              => /\ last.committed /\ last.key \in saved
                 /\ last.err = None /\ last.raised = None
        /\ last.failed \in BuildAndSaveSteps
              => /\ last.raised = last.err /\ last.err # None /\ last.ret = None
                 /\ ~last.committed
                 /\ last.writes # <<>>
                 /\ LET e == last.writes[Len(last.writes)]
                    IN  /\ e.saving_status = "SAVE_FAILED" /\ e.last_err_type = last.err
                        /\ get_info(last.key) = {e}

\* save_orders raised in a call that fetched a finished report.
C27_Witness ==
    /\ OrdersCall /\ last.failed = "save_orders" /\ last.raised = "IOError"
    /\ last.key \notin saved
    /\ \E e \in get_info(last.key) :
          e.saving_status = "SAVE_FAILED" /\ e.last_err_type = "IOError"


\* C28: an entry written by a call of retrieve_orders carries an error type
\* only if an exception occurred in that call, and then it is the type of that
\* exception; an error type left in the entry by an earlier call is not in any
\* entry written by a later call in which nothing failed.
C28_LastErrorCleared ==
    OrdersCall =>
        /\ \A i \in 1..Len(last.writes) :
              last.writes[i].last_err_type # None
                 => (last.err # None /\ last.writes[i].last_err_type = last.err)
        /\ (last.err = None /\ last.writes # <<>>)
              => \E e \in get_info(last.key) : e.last_err_type = None

\* The entry found carried the error type of an earlier call; nothing failed
\* in this call, and the entry it logged carries none.
C28_Witness ==
    /\ OrdersCall /\ last.err = None /\ last.writes # <<>>
    /\ \E e \in last.pre : e.last_err_type # None /\ e.processing_status # "REQUEST_FAILED"
    /\ \E e \in get_info(last.key) : e.last_err_type = None


\* C29: retrieve_orders does not change the object it got from get_info: when
\* the call ends that object is as get_info returned it.  The entry the logger
\* holds for the key changes only by log_info: after a call that logged
\* nothing it is the entry found, after a call that logged it is the entry
\* logged last, which has a value in every field that the entry found had.
C29_SnapshotDiscipline ==
    OrdersCall =>
        /\ last.snapshot = last.pre
        /\ last.writes = <<>> => get_info(last.key) = last.pre
        /\ last.writes # <<>> => get_info(last.key) = {last.writes[Len(last.writes)]}
        /\ \A i \in 1..Len(last.writes) :
              /\ DOMAIN last.writes[i]
                    = DOMAIN AmazonReportLogEntry(None, NoId, NoId, last.key, None, None, None)
              /\ \A e \in last.pre :
                    \/ last.writes[i].request_id = e.request_id
                    \/ e.processing_status = "REQUEST_FAILED"

\* The call found an entry with an error type and a status that is not done,
\* and logged an edited copy: no error type, and the status done.
C29_Witness ==
    /\ OrdersCall /\ last.writes # <<>>
    /\ \E e \in last.pre :
          /\ e.last_err_type # None /\ e.processing_status = "_SUBMITTED_"
          /\ last.snapshot = {e}
    /\ \E n \in get_info(last.key) : n.last_err_type = None /\ n.processing_status = "_DONE_"


\* The record found by the last call of retrieve_report is that of a created
\* report whose status is not None, IN_QUEUE or IN_PROGRESS and that has no
\* document id.
FoundEndedWithoutDocument ==
    \E e \in last.pre :
        e.Status \notin {None, "IN_QUEUE", "IN_PROGRESS"} /\ e.DocumentId = NoId

\* C30: a call of retrieve_report returns DONE_NOTHING exactly when the
\* tracker holds for the key a status other than None, IN_QUEUE and
\* IN_PROGRESS and no document id (the report ended as FATAL or CANCELLED);
\* such a call issues no remote request, does not wait for one, leaves the
\* tracker as it was, and its out is None.
C30_DoneNothing ==
    ReportsCall =>
        /\ (last.ret = "DONE_NOTHING") <=> FoundEndedWithoutDocument
        /\ last.ret = "DONE_NOTHING"
              => /\ last.reqs = <<>> /\ last.writes = <<>> /\ last.waits = <<>>
                 /\ Tracked(last.key) = last.pre
                 /\ last.out = None /\ last.raised = None

\* The report of the key ended as FATAL, and the call did nothing.
C30_Witness ==
    /\ ReportsCall /\ last.ret = "DONE_NOTHING"
    /\ \E e \in last.pre : e.Status = "FATAL" /\ e.ReportId # NoId
    /\ Tracked(last.key) = last.pre


\* The records with a document id and a status other than None, IN_QUEUE and
\* IN_PROGRESS among those found by the last call of retrieve_report.
DocumentRowEntries ==
    {e \in last.pre : e.DocumentId # NoId /\ e.Status \notin {None, "IN_QUEUE", "IN_PROGRESS"}}

\* C31: when the tracker holds a document id for the key and a status other
\* than None, IN_QUEUE and IN_PROGRESS, the call of retrieve_report issues one
\* GET REPORT DOCUMENT request with that document id and no other request, and
\* writes nothing; when it returns (nothing raised) it returns
\* DOCUMENTED_RETURNED with the output of output_report_doc.  Whenever a call
\* returns DOCUMENTED_RETURNED, out is that output and the tracker holds for
\* the key the status DONE and a document id.
C31_DocumentRetrieval ==
    ReportsCall =>
        /\ \A e \in DocumentRowEntries :
              /\ last.reqs = <<Req("getReportDocument", e.DocumentId)>>
              /\ last.writes = <<>> /\ Tracked(last.key) = last.pre
              /\ last.raised = None
                    => (last.ret = "DOCUMENTED_RETURNED" /\ last.out = "output")
        /\ last.ret = "DOCUMENTED_RETURNED"
              => /\ last.out = "output"
                 /\ \E n \in Tracked(last.key) :
                       /\ n.Status = "DONE" /\ n.DocumentId = ReportDocumentId(n.ReportId)
                       /\ last.reqs[Len(last.reqs)] = Req("getReportDocument", n.DocumentId)

\* The document of a report found done was fetched and returned.
C31_Witness ==
    /\ ReportsCall /\ DocumentRowEntries # {} /\ last.ret = "DOCUMENTED_RETURNED"
    /\ Len(last.reqs) = 1 /\ last.out = "output"
    /\ \E e \in last.pre : e.Status = "DONE"


\* The records found by the last call of retrieve_report that are tracked as
\* created, with a waiting status, and hold no report id.
MissingReportIdEntries ==
    {e \in last.pre : e.ReportId = NoId /\ e.Status \in {None, "IN_QUEUE", "IN_PROGRESS"}}

\* C32: when the tracker holds for the key a waiting status and no report id,
\* the call of retrieve_report raises RuntimeError, issues no remote request
\* and leaves the tracker record as it was.
C32_MissingReportId ==
    (ReportsCall /\ MissingReportIdEntries # {})
        => /\ last.raised = "RuntimeError" /\ last.ret = None
           /\ last.reqs = <<>> /\ last.writes = <<>>
           /\ Tracked(last.key) = last.pre

\* The second call in a row that found the record of a failed CREATE REPORT.
C32_Witness ==
    /\ ReportsCall /\ MissingReportIdEntries # {}
    /\ last.raised = "RuntimeError" /\ last.prev.failed = "report_id"
    /\ \E e \in Tracked(last.key) : e.ReportId = NoId /\ e.Errors # None


\* The positions of the fetch requests (GetReport, getReportDocument) among
\* the requests of the last call.
FetchReqs == {i \in 1..Len(last.reqs) : last.reqs[i].op \in {"GetReport", "getReportDocument"}}

\* C36: a call issues a fetch request only when the record found for the key
\* is done or the poll made just before in the same call answered done, and
\* only with the artifact id the service gave for the job tracked for that
\* key (the report id generated for the tracked request, the document id of
\* the tracked report), which the record of the key then holds; the id of a
\* fetch request is never absent.
C36_FetchOnlyAfterDone ==
    \A i \in FetchReqs :
       LET arg == last.reqs[i].arg
       IN  /\ arg # NoId
           /\ OrdersCall =>
                 /\ get_info(last.key) # {}
                 /\ \A e \in get_info(last.key) :
                       /\ e.processing_status = "_DONE_"
                       /\ e.report_id = arg
                       /\ arg = GeneratedReportId(e.request_id)
                       /\ \E n \in 1..mwsJobs[last.key] : e.request_id = MwsRequestId(last.key, n)
                       /\ \/ \E f \in last.pre : f.processing_status = "_DONE_" /\ f.report_id = arg
                          \/ i > 1 /\ last.reqs[i - 1] = Req("GetReportRequestList", e.request_id)
           /\ ReportsCall =>
                 /\ Tracked(last.key) # {}
                 /\ \A e \in Tracked(last.key) :
                       /\ e.Status = "DONE"
                       /\ e.DocumentId = arg
                       /\ arg = ReportDocumentId(e.ReportId)
                       /\ \E n \in 1..spJobs[last.key] : e.ReportId = SpReportId(last.key, n)
                       /\ \/ \E f \in last.pre : f.Status = "DONE" /\ f.DocumentId = arg
                          \/ i > 1 /\ last.reqs[i - 1] = Req("getReport", e.ReportId)

\* A fetch made right after the poll that answered done, for a record that was
\* not done when the call found it.
C36_Witness ==
    /\ FetchReqs = {2}
    /\ \E e \in last.pre : IF OrdersCall THEN e.processing_status = "_SUBMITTED_"
                                         ELSE e.Status = "IN_QUEUE"
    /\ last.reqs[2].arg # NoId
    /\ ReportsCall

\* C36 for retrieve_orders: a fetch of a record found done.
C36_WitnessFound ==
    /\ OrdersCall /\ FetchReqs = {1}
    /\ \E e \in last.pre : e.processing_status = "_DONE_" /\ e.report_id = last.reqs[1].arg

---------------------------------------------------------------------------
\* Claims about the rate limiter of bulk mode (specification SpecBulk).

\* The calls of __wait made in bulk mode by the last call of retrieve_report.
BulkWaits == {i \in 1..Len(last.waits) : last.waits[i].bulk}

\* C19: in bulk mode a request is issued no earlier than MinSpacing after the
\* previous request of its type (60 s for CREATE REPORT, 0.5 s for GET REPORT,
\* 60 s for GET REPORT DOCUMENT), and the first request of a type is not
\* delayed for spacing.
C19_MinimumSpacing ==
    \A i \in BulkWaits :
        LET w == last.waits[i]
        IN  /\ (w.issued /\ w.gap # Never) => w.gap >= MinSpacing(w.type)
            /\ w.first => w.slept = 0


\* C20: in bulk mode no window of BurstCapacity * MinSpacing ticks holds more
\* than BurstCapacity (15) requests of one type: counted from the first
\* request of a window, at most 15 requests of the type are issued before the
\* window has passed.
C20_RateCeiling ==
    (bulk /\ issued.type \in RequestType) => issued.n <= BurstCapacity


\* The last call of __wait for a type used up its burst: it found the counter
\* at 1 and took it to 0 (lines 702-705, 717-720, 732-735).
ExhaustsBurst(w) == w.left = 1

\* The call of __wait follows an exhausted burst of its type: it is not the
\* first of the type and found the counter at BurstCapacity again.
FollowsExhaustedBurst(w) == ~w.first /\ w.left = BurstCapacity

\* The cooldown itself: every wait that uses up a burst sleeps for the full
\* cooldown and the counter of its type is BurstCapacity again afterwards.
CooldownPaid ==
    \A i \in BulkWaits :
        LET w == last.waits[i]
        IN  ExhaustsBurst(w) => (w.slept >= Cooldown /\ lim[w.type].left = BurstCapacity)

\* C21: in bulk mode, the request that follows an exhausted burst of its type
\* (BurstCapacity requests were issued) is issued at least Cooldown (60 s)
\* after the last request of that burst; the wait that uses up the burst sleeps
\* for the full cooldown whatever time has passed, and the counter of the type
\* is BurstCapacity again afterwards.
C21_CooldownAfterBurst ==
    /\ CooldownPaid
    /\ \A i \in BulkWaits :
          LET w == last.waits[i]
          IN  (FollowsExhaustedBurst(w) /\ w.issued /\ w.gap # Never) => w.gap >= Cooldown



\* C22: a newly constructed SpTabReportRetrieval is in custom mode, and so is
\* one after custom_mode().  A call of retrieve_report made in custom mode is
\* not blocked before any of its requests, whatever their type, and leaves the
\* counters and the last-request times as they were.  A call of
\* retrieve_report leaves the mode as it is: an object in bulk mode stays in
\* bulk mode until custom_mode() is called.
C22_LimiterSwitch ==
    /\ ~bulk
    /\ [][/\ last'.api = "custom_mode" => ~bulk'
          /\ last'.api = "reports" => bulk' = bulk
          /\ (bulk /\ ~bulk') => last'.api = "custom_mode"
          /\ (~bulk /\ last'.api = "reports")
                => /\ lim' = lim
                   /\ Len(last'.waits) >= Len(last'.reqs)
                   /\ \A i \in 1..Len(last'.waits) :
                         last'.waits[i].slept = 0 /\ ~last'.waits[i].bulk]_vars

\* A call made in custom mode after bulk mode had been used: it issued a
\* request and the counters still show the requests counted in bulk mode.
C22_Witness ==
    /\ ReportsCall /\ ~bulk /\ last.reqs # <<>>
    /\ last.waits # <<>> /\ last.waits[1].slept = 0
    /\ DOMAIN lim # {}
    /\ \E c \in DOMAIN lim : lim[c].left < BurstCapacity /\ lim[c].t_last # Never


\* The ticks slept by the first n of a sequence of waits.
RECURSIVE SleptIn(_, _)
SleptIn(ws, n) == IF n = 0 THEN 0 ELSE SleptIn(ws, n - 1) + ws[n].slept

\* The request types for which a sequence of waits holds a wait.
TypesOf(ws) == {ws[i].type : i \in 1..Len(ws)}

\* C23: the three windows are independent.  In a call of retrieve_report made
\* in bulk mode, dt ticks after the call before it, (a) a type for which the
\* call makes no limiter request keeps its counter and its last-request time
\* (the age of that time only grows by the time that passed), whatever the
\* call requests of the other types; (b) the time a limiter request blocks is
\* given by the counter and the last-request time of its own type alone: the
\* spacing still owed to the last request of that type, plus the cooldown when
\* the counter of that type was at 1.
C23_IndependentWindows ==
    [][(bulk /\ last'.api = "reports")
          => \E dt \in ElapseChoices :
                LET ws == last'.waits
                IN  /\ \A c \in RequestType \ TypesOf(ws) :
                          lim'[c] = [left |-> lim[c].left,
                                     t_last |-> Older(lim[c].t_last, dt + SleptIn(ws, Len(ws)),
                                                      MinSpacing(c))]
                    /\ \A i \in 1..Len(ws) :
                          LET c == ws[i].type
                              age == Older(lim[c].t_last, dt + SleptIn(ws, i - 1), MinSpacing(c))
                          IN  ws[i].slept = SpacingSleep(c, age)
                                            + (IF lim[c].left = 1 THEN Cooldown ELSE 0)]_vars

\* A GET REPORT DOCUMENT request that had to wait for its spacing, in a call
\* that requested nothing else, while CREATE REPORT and GET REPORT had been
\* requested before: their counters stand where those requests left them.
C23_Witness ==
    /\ ReportsCall /\ bulk /\ Len(last.waits) = 1
    /\ last.waits[1].type = "GET_REPORT_DOC" /\ last.waits[1].slept > 0
    /\ lim["CREATE_REPORT"] = [left |-> BurstCapacity - 1, t_last |-> MinSpacing("CREATE_REPORT")]
    /\ lim["GET_REPORT"].left = BurstCapacity - 1 /\ lim["GET_REPORT"].t_last # Never


\* bulk_mode() has been called: the counters exist.
LimiterSet == DOMAIN lim # {}

\* C37: with one caller, between two calls of retrieve_report, bulk_mode and
\* custom_mode (no __wait is in progress then) the counter of every request
\* type is in 1..BurstCapacity: never 0, never negative.
C37_BurstCounterRange ==
    LimiterSet => \A c \in RequestType : lim[c].left \in 1..BurstCapacity

\* A call of __wait has just used up a burst and set the counter back, while
\* the counter of another type is part-way down.
C37_Witness ==
    /\ LimiterSet /\ bulk
    /\ \E i \in BulkWaits :
          /\ last.waits[i].left = 1
          /\ lim[last.waits[i].type].left = BurstCapacity
    /\ \E c \in RequestType : lim[c].left \in 1..(BurstCapacity - 1)

\* The last-request time of a type was not set anew between two states: its
\* age did not go back.
StampKept(before, after) ==
    IF before = Never THEN after = Never ELSE after # Never /\ after >= before

\* The request types of which the call recorded in a state's last issued no
\* request.
TypesNotRequested(call) ==
    {c \in RequestType : \A i \in 1..Len(call.reqs) : TypeOfOp(call.reqs[i].op) # c}

\* In a call of retrieve_report made in bulk mode, the counter and the
\* last-request time of every type of which the call issues no request stay
\* as they were.
CapacityKept ==
    (bulk /\ bulk' /\ last'.api = "reports" /\ LimiterSet)
        => \A c \in TypesNotRequested(last') :
              /\ lim'[c].left = lim[c].left
              /\ StampKept(lim[c].t_last, lim'[c].t_last)

\* C38: in bulk mode a call of retrieve_report that issues no request of a
\* type (it returns DONE_NOTHING, or it raises before a request is sent, as
\* with the RuntimeError for a missing report id) leaves the counter and the
\* last-request time of that type unchanged.
C38_CapacityOnlyForRequests == [][CapacityKept]_vars

\* The same for the calls that do not raise RuntimeError.
CapacityKeptUnlessRuntimeError ==
    [][last'.raised # "RuntimeError" => CapacityKept]_vars

\* C39: in bulk mode every call of __wait ends, and it keeps the caller for
\* at most MinSpacing + Cooldown of its type, and for at most MinSpacing when
\* it does not use up the burst; a call of retrieve_report passes the limiter
\* at most twice and then ends by returning or raising.
C39_BoundedBlocking ==
    /\ \A i \in BulkWaits :
          LET w == last.waits[i]
          IN  /\ w.slept \in 0..(MinSpacing(w.type) + Cooldown)
              /\ ~ExhaustsBurst(w) => w.slept <= MinSpacing(w.type)
    /\ ReportsCall =>
          /\ Len(last.waits) <= 2
          /\ (last.ret # None) # (last.raised # None)

\* A call of __wait that slept for the whole spacing and then for the
\* cooldown, in a call of retrieve_report that returned.
C39_Witness ==
    /\ ReportsCall /\ last.ret # None
    /\ \E i \in BulkWaits :
          /\ ExhaustsBurst(last.waits[i])
          /\ last.waits[i].slept = MinSpacing(last.waits[i].type) + Cooldown

---------------------------------------------------------------------------
\* Claims about callers on separate threads (specification SpecThreads).

\* The callers inside __wait: asleep for the spacing or for the cooldown.
InWait == {k \in Keys : threads[k].pc \in {"sleep_spacing", "sleep_cooldown"}}

\* No counter is below 0.
CounterNeverNegative == \A c \in DOMAIN lim : lim[c].left >= 0

\* C24: when callers that retrieve different keys share one limiter and
\* interleave, the counter and the last-request time of a request type are
\* accessed by one caller at a time: no caller enters __wait while another is
\* inside it, and so the counter of a type is never taken below 0 (a caller
\* that finds it at 0 would count a request of a burst that is used up, and
\* issue it without the cooldown).
C24_SharedLimiterExclusive ==
    /\ Cardinality(InWait) <= 1
    /\ CounterNeverNegative

---------------------------------------------------------------------------
\* Claims about SP_Orders_Retrieval (specification SpecSp).

\* A request was made through __make_request since the object was constructed.
SpRequested == sp.pauses # <<>>

\* C33: over the lifetime of an SP_Orders_Retrieval object, whatever calls of
\* retrieve_orders the requests belong to, the request counter stays within
\* 0..request_burst_size, no more than request_burst_size requests are made
\* between two burst pauses (or between construction and the first one), every
\* request is made right after a pause of request_pause_time, and the request
\* that follows a full burst is made after a pause of burst_pause_time.
C33_RequestPacing ==
    /\ sp.req_count \in 0..sp.request_burst_size
    /\ sp.since_burst_pause <= sp.request_burst_size
    /\ SpRequested =>
          /\ sp.pauses[Len(sp.pauses)] = "request_pause_time"
          /\ sp.after_full => sp.pauses = <<"burst_pause_time", "request_pause_time">>
          /\ ~sp.after_full => sp.pauses = <<"request_pause_time">>

\* A request in the middle of a call that follows a full burst begun in an
\* earlier call.
C33_Witness ==
    /\ SpRequested /\ sp.after_full
    /\ sp.pauses = <<"burst_pause_time", "request_pause_time">>
    /\ sp.req_count = 1
    /\ sp.count_at_call \in 1..(sp.request_burst_size - 1)
    /\ sp.request_burst_size >= 2


---------------------------------------------------------------------------
\* Claims about the constructor of SpTabReportRetrieval (specification
\* SpecConstruct).

ConstructorCall == last.api = "__init__"

\* C34: a constructor call with an SpReportTracker and no report_type_name
\* succeeds, and get_report_type_name() of the object returns None; the
\* constructor raises ValueError only for a report_type_name that was given
\* and is not the name of a tab report type.
C34_ConstructWithoutTypeName ==
    /\ ConstructorCall =>
          /\ (last.key.tracker = "SpReportTracker" /\ last.key.report_type_name = None)
                => (last.raised = None /\ type_name = None)
          /\ last.raised = "ValueError"
                => (last.key.report_type_name # None
                    /\ last.key.report_type_name \notin TAB_REPORT_TYPES)
    /\ last.api = "get_report_type_name" => last.out = type_name


---------------------------------------------------------------------------
\* Claims about retrieve_orders under retry (specification SpecRetry).

\* The logger holds an entry for key k with saving_status SAVED.
LoggedSaved(k) == \E e \in get_info(k) : e.saving_status = "SAVED"

\* C35: when retrieve_orders is called again and again for a key and the
\* failures are transient, then from every state of the logger, the states
\* left by a failed request, poll or fetch included, the entry of the key
\* reaches saving_status SAVED.
C35_EventuallySaved == \A k \in RetryKeys : (~LoggedSaved(k)) ~> LoggedSaved(k)

\* A key is saved by a call that found the entry of a failed fetch, after its
\* first request had failed and a second one was made.
C35_Witness ==
    /\ OrdersCall /\ LoggedSaved(last.key) /\ last.committed
    /\ \E e \in last.pre : e.saving_status = "SAVE_FAILED" /\ e.last_err_type # None
    /\ mwsJobs[last.key] = MaxJobs


\* The orders of a sequence of batches, batch after batch.
RECURSIVE Flatten(_)
Flatten(batches) == IF batches = <<>> THEN <<>> ELSE Head(batches) \o Flatten(Tail(batches))

\* A call of retrieve_orders is in progress, or has ended by returning or by
\* raising.
SpInCall == sp.pc = "batch"
SpEnded == sp.pc \in {"returned", "raised"}

\* The call has received a payload, and the one received last has no NextToken.
TokenlessReceived == sp.received # <<>> /\ sp.answered = NoToken

\* The get_orders request made last asked with the token of the payload
\* received before it, and by dates when there was none (the first request).
TokenOfPreceding == (SpInCall \/ SpEnded) => sp.asked = sp.preceding

\* The orders collected so far are those of the batches processed, each once
\* and in the order received, and a call that returns returns the orders of
\* all the batches it received.
InBatchOrder ==
    /\ SpInCall => sp.orders_data = Flatten(SubSeq(sp.received, 1, Len(sp.received) - 1))
    /\ sp.pc = "returned" => sp.result = Flatten(sp.received)

\* C40 as stated: retrieve_orders requests batches until a payload has no
\* NextToken, each request after the first uses the token of the payload
\* before it, the orders of every batch received are in the result once and
\* in batch order, and the call ends only when the service has returned a
\* payload without a NextToken.
C40_Pagination ==
    /\ TokenOfPreceding
    /\ InBatchOrder
    /\ SpEnded => TokenlessReceived

\* C40 with the exceptions: the call returns only after a payload without a
\* NextToken, and then with the orders of all the batches received, once and
\* in batch order; a request that raises ends the call at once without a
\* result, whatever tokens were received; once a payload without a NextToken
\* was received the call ends, by returning or, when a request for the items
\* of its orders raises, by raising.
C40_PaginationAmended ==
    /\ [](/\ TokenOfPreceding
          /\ InBatchOrder
          /\ sp.pc = "returned" => (TokenlessReceived /\ sp.raised = None)
          /\ sp.pc = "raised" => (sp.raised # None /\ sp.result = None)
          /\ (SpInCall /\ sp.pending = <<>> /\ sp.answered # NoToken) => sp.token = sp.answered)
    /\ (SpInCall /\ TokenlessReceived) ~> SpEnded

\* A call that returned the orders of three batches, asked for with the tokens
\* of the first and of the second.
C40_Witness ==
    /\ sp.pc = "returned"
    /\ Len(sp.received) = 3
    /\ sp.asked = NextToken(2)
    /\ Len(sp.result) >= 3
    /\ sp.received[2] # <<>>


====
